---- MODULE Spec2Model ----
(***************************************************************************)
(* Model of the campaign-data pipeline of meta_ads_analyzer:               *)
(*   DataProcessor.clean_and_normalize  (src/data_processor.py)            *)
(*   KPICalculator                      (src/kpi_calculator.py)            *)
(*                                                                         *)
(* A pandas DataFrame is a record [cols, rows]: cols is the set of column  *)
(* headers, rows the sequence of rows in positional order.  A row carries  *)
(* its index label (idx) and a function val from the headers to cells.     *)
(* A cell is [k, n, d, s]: k is the kind of value ("num" the rational n/d, *)
(* "date" the day number n, "str" the character sequence s, "null" for     *)
(* None/NaN/NaT).  Text is a sequence of one-character strings so that     *)
(* lower(), replace() and the ordering of sort_values are computed.        *)
(* Money is counted in whole currency units; ratios are exact rationals.   *)
(***************************************************************************)
EXTENDS Integers, Sequences, FiniteSets, TLC

VARIABLES raw, df, pc, kpis, dsum, csum, again,
          header, columns, once,
          errors, warnings, result,
          source, session, calls, reported, shown,
          pages, url, requests, all_data,
          accounts, acct, frames, combined_data,
          token, verdict, actions_data, extracted

\* the column names of a table: as read, as they are now, after one renaming
nameVars == <<header, columns, once>>

\* the fields and the return value of an ExcelValidator
gateVars == <<errors, warnings, result>>

\* one run of the application script, the session it runs in and what the
\* page of the run presents
appVars == <<source, session, calls, reported, shown>>

\* the selected ad accounts and the locals of the fetch loop of main
fetchVars == <<accounts, acct, frames, combined_data>>

\* the arguments and return values of the other methods of MetaAdsClient
clientVars == <<token, verdict, actions_data, extracted>>

\* the remote source and the locals of MetaAdsClient.get_insights_data
pageVars == <<pages, url, requests, all_data, fetchVars, clientVars>>

vars == <<raw, df, pc, kpis, dsum, csum, again, nameVars, gateVars, appVars, pageVars>>

(* ------------------------------ bounds --------------------------------- *)

\* largest number of rows of an input table
MaxRows == 2

(* ------------------------------- text ---------------------------------- *)

\* the printable ASCII characters in code order, code 32 first (code 96 is
\* spelled out: it never occurs in the data)
Ascii ==
  << " ", "!", "\"", "#", "$", "%", "&", "'", "(", ")", "*", "+", ",", "-", ".", "/",
     "0", "1", "2", "3", "4", "5", "6", "7", "8", "9", ":", ";", "<", "=", ">", "?",
     "@", "A", "B", "C", "D", "E", "F", "G", "H", "I", "J", "K", "L", "M", "N", "O",
     "P", "Q", "R", "S", "T", "U", "V", "W", "X", "Y", "Z", "[", "\\", "]", "^", "_",
     "grave", "a", "b", "c", "d", "e", "f", "g", "h", "i", "j", "k", "l", "m", "n", "o",
     "p", "q", "r", "s", "t", "u", "v", "w", "x", "y", "z", "{", "|", "}", "~" >>

\* ord(c)
Ord(c) == 31 + CHOOSE i \in 1..Len(Ascii) : Ascii[i] = c

\* chr(n)
Chr(n) == Ascii[n - 31]

\* str.lower() on one character
LowerChar(c) == IF Ord(c) >= 65 /\ Ord(c) <= 90 THEN Chr(Ord(c) + 32) ELSE c

\* str.lower()
StrLower(s) == [i \in 1..Len(s) |-> LowerChar(s[i])]

\* str.replace(space, underscore)
StrReplaceSpace(s) == [i \in 1..Len(s) |-> IF s[i] = " " THEN "_" ELSE s[i]]

\* str(n) for a non-negative integer
RECURSIVE IntToStr(_)
IntToStr(n) == IF n < 10 THEN <<Chr(48 + n)>>
               ELSE IntToStr(n \div 10) \o <<Chr(48 + (n % 10))>>

\* s < t in Python's string order (code points, shorter prefix first)
RECURSIVE StrLess(_, _)
StrLess(s, t) ==
  IF t = <<>> THEN FALSE
  ELSE IF s = <<>> THEN TRUE
  ELSE IF Ord(Head(s)) # Ord(Head(t)) THEN Ord(Head(s)) < Ord(Head(t))
  ELSE StrLess(Tail(s), Tail(t))

(* ------------------------------- cells --------------------------------- *)

Null == [k |-> "null", n |-> 0, d |-> 1, s |-> <<>>]

Num(i) == [k |-> "num", n |-> i, d |-> 1, s |-> <<>>]

Date(i) == [k |-> "date", n |-> i, d |-> 1, s |-> <<>>]

Str(t) == [k |-> "str", n |-> 0, d |-> 1, s |-> t]

IsNull(c) == c.k = "null"

\* a > b on numeric cells; a comparison with NaN is False
Gt(a, b) == a.k = "num" /\ b.k = "num" /\ a.n * b.d > b.n * a.d

\* a < b on numeric cells; a comparison with NaN is False
Lt(a, b) == Gt(b, a)

\* a == b on numeric cells; a comparison with NaN is False
NumEq(a, b) == a.k = "num" /\ b.k = "num" /\ a.n * b.d = b.n * a.d

\* the absolute value in place of clip(lower=0)
ClipLower0_Abs(c) == IF Lt(c, Num(0)) THEN Num(0 - c.n) ELSE c

\* Series.clip(lower=0): NaN stays NaN
ClipLower0(c) == IF Lt(c, Num(0)) THEN Num(0) ELSE c

\* Series.fillna(v)
FillNa(c, v) == IF IsNull(c) THEN v ELSE c

\* pd.to_numeric(errors='coerce') on one cell: text that is no number -> NaN
ToNumeric(c) == IF c.k = "num" THEN c ELSE Null

\* pd.to_datetime(errors='coerce') on one cell: what is no date -> NaT
ToDatetime(c) == IF c.k = "date" THEN c ELSE Null

\* Series.astype(str) on one cell: None/NaN become the text 'nan'
AsTypeStr(c) ==
  CASE c.k = "str" -> c
    [] c.k = "null" -> Str(<<"n", "a", "n">>)
    [] c.k = "num" -> Str(IF c.n < 0 THEN <<"-">> \o IntToStr(0 - c.n) ELSE IntToStr(c.n))
    [] OTHER -> Str(<<"d">> \o IntToStr(c.n))

\* elementwise a + b of two text cells; a missing operand gives a missing result
StrCat(a, b) == IF a.k = "str" /\ b.k = "str" THEN Str(a.s \o b.s) ELSE Null

(* ------------------------------ headers -------------------------------- *)

\* A column header is its lower-cased, trimmed text (name) together with
\* whether the header as written has upper-case letters (caps) or leading or
\* trailing blanks (pad).
Hdr(nm, caps, pad) == [name |-> nm, caps |-> caps, pad |-> pad]

\* a header already in lower case without surrounding blanks
Col(nm) == Hdr(nm, FALSE, FALSE)

\* col.lower() without strip(): the blanks around the text stay
LowerStrip_KeepsBlanks(h) == Hdr(h.name, FALSE, h.pad)

\* col.lower().strip()
LowerStrip(h) == Hdr(h.name, FALSE, FALSE)

\* DataProcessor.column_mapping
column_mapping ==
  [ k \in { "campaign name", "reporting starts", "amount spent (inr)", "impressions",
            "link clicks", "results", "reach", "frequency",
            "cpm (cost per 1,000 impressions) (inr)", "cpc (cost per link click) (inr)",
            "ctr (link click-through rate)", "clicks (all)", "ctr (all)",
            "cpc (all) (inr)", "shop_clicks", "cost per results", "result indicator",
            "campaign delivery" } |->
    CASE k = "campaign name" -> "campaign_name"
      [] k = "reporting starts" -> "date"
      [] k = "amount spent (inr)" -> "spend"
      [] k = "impressions" -> "impressions"
      [] k = "link clicks" -> "clicks"
      [] k = "results" -> "purchases"
      [] k = "reach" -> "reach"
      [] k = "frequency" -> "frequency"
      [] k = "cpm (cost per 1,000 impressions) (inr)" -> "cpm_original"
      [] k = "cpc (cost per link click) (inr)" -> "cpc_original"
      [] k = "ctr (link click-through rate)" -> "ctr_original"
      [] k = "clicks (all)" -> "clicks_all"
      [] k = "ctr (all)" -> "ctr_all"
      [] k = "cpc (all) (inr)" -> "cpc_all"
      [] k = "shop_clicks" -> "shop_clicks"
      [] k = "cost per results" -> "cost_per_results"
      [] k = "result indicator" -> "result_indicator"
      [] k = "campaign delivery" -> "campaign_delivery" ]

\* DataFrame.rename(columns=mapping) on one header: exact match on the text
RenameCol(h) ==
  IF ~h.caps /\ ~h.pad /\ h.name \in DOMAIN column_mapping
  THEN Col(column_mapping[h.name]) ELSE h

(* ------------------------------- tables -------------------------------- *)

Has(t, nm) == Col(nm) \in t.cols

\* the cell of row r in column nm
Cell(r, nm) == r.val[Col(nm)]

\* df[nm] = f(row) for every row: adds the column or overwrites it
SetCol(t, nm, f(_)) ==
  [cols |-> t.cols \cup {Col(nm)},
   rows |-> [i \in 1..Len(t.rows) |->
               [idx |-> t.rows[i].idx,
                val |-> [c \in t.cols \cup {Col(nm)} |->
                           IF c = Col(nm) THEN f(t.rows[i]) ELSE t.rows[i].val[c]]]]]

\* df[nm] = g(df[nm]) for every column nm of names that the table has
MapCols(t, names, g(_, _)) ==
  [cols |-> t.cols,
   rows |-> [i \in 1..Len(t.rows) |->
               [idx |-> t.rows[i].idx,
                val |-> [c \in t.cols |->
                           IF c \in {Col(nm) : nm \in names}
                           THEN g(t.rows[i].val[c], c.name) ELSE t.rows[i].val[c]]]]]

\* df.dropna(subset=[nm])
DropNa(t, nm) ==
  [cols |-> t.cols, rows |-> SelectSeq(t.rows, LAMBDA r : ~IsNull(Cell(r, nm)))]

\* the table of no result
NoTable == [cols |-> {}, rows |-> <<>>]

(* ------------------- DataProcessor.clean_and_normalize ----------------- *)

\* DataProcessor._normalize_column_names
NormalizeColumnNames(t) ==
  LET NewHdr(h) == RenameCol(LowerStrip(h))
      newcols == {NewHdr(h) : h \in t.cols}
  IN [cols |-> newcols,
      rows |-> [i \in 1..Len(t.rows) |->
                  [idx |-> t.rows[i].idx,
                   val |-> [c \in newcols |->
                              t.rows[i].val[CHOOSE h \in t.cols : NewHdr(h) = c]]]]]

\* DataProcessor._clean_data_types
CleanDataTypes(t) ==
  LET t1 == MapCols(t, {"date"}, LAMBDA c, nm : ToDatetime(c))
      t2 == MapCols(t1, {"spend", "impressions", "clicks", "purchases", "revenue",
                         "results", "reach", "frequency"},
                    LAMBDA c, nm : IF nm \in {"impressions", "clicks"}
                                   THEN ClipLower0(ToNumeric(c)) ELSE ToNumeric(c))
      t3 == MapCols(t2, {"ad set budget", "ad set budget type", "campaign delivery",
                         "attribution setting", "result indicator"},
                    LAMBDA c, nm : AsTypeStr(c))
  IN MapCols(t3, {"account_id", "campaign_id", "ad_id", "creative_id"},
             LAMBDA c, nm : AsTypeStr(c))

\* the literal 'Unknown'
Unknown == Str(<<"U", "n", "k", "n", "o", "w", "n">>)

\* _handle_missing_values with required_columns = ['campaign_name'] only
HandleMissingValues_KeepsNoDate(t) ==
  LET t1 == MapCols(t, {"spend", "impressions", "clicks", "purchases", "revenue"},
                    LAMBDA c, nm : FillNa(c, Num(0)))
      t2 == IF Has(t1, "campaign_name") THEN DropNa(t1, "campaign_name") ELSE t1
  IN MapCols(t2, {"ad_name", "campaign_name", "objective"},
             LAMBDA c, nm : FillNa(c, Unknown))

\* DataProcessor._handle_missing_values
HandleMissingValues(t) ==
  LET t1 == MapCols(t, {"spend", "impressions", "clicks", "purchases", "revenue"},
                    LAMBDA c, nm : FillNa(c, Num(0)))
      t2 == IF Has(t1, "campaign_name") THEN DropNa(t1, "campaign_name") ELSE t1
      t3 == IF Has(t2, "date") THEN DropNa(t2, "date") ELSE t2
  IN MapCols(t3, {"ad_name", "campaign_name", "objective"},
             LAMBDA c, nm : FillNa(c, Unknown))

\* duplicate_cols of _remove_duplicates
duplicate_cols(t) ==
  {"campaign_name", "date"} \cup (IF Has(t, "ad_id") THEN {"ad_id"} ELSE {})

\* df.drop_duplicates(subset=keys, keep='first')
DropDuplicates(t, keys) ==
  LET SameKey(a, b) == \A nm \in keys : Cell(a, nm) = Cell(b, nm)
      first == {i \in 1..Len(t.rows) : \A j \in 1..(i - 1) : ~SameKey(t.rows[j], t.rows[i])}
      Pick[i \in 0..Len(t.rows)] ==
        IF i = 0 THEN <<>>
        ELSE IF i \in first THEN Append(Pick[i - 1], t.rows[i]) ELSE Pick[i - 1]
  IN [cols |-> t.cols, rows |-> Pick[Len(t.rows)]]

\* drop_duplicates raises KeyError when a column of the subset is missing
RemoveDuplicatesRaises(t) == \E nm \in duplicate_cols(t) : ~Has(t, nm)

\* DataProcessor._remove_duplicates
RemoveDuplicates(t) == DropDuplicates(t, duplicate_cols(t))

\* _validate_data_consistency without the clicks > impressions rule
ValidateDataConsistency_NoClickRepair(t) ==
  LET t2 == IF Has(t, "spend")
               /\ \E i \in 1..Len(t.rows) : Lt(Cell(t.rows[i], "spend"), Num(0))
            THEN MapCols(t, {"spend"}, LAMBDA c, nm : ClipLower0(c))
            ELSE t
  IN IF Has(t2, "purchases") /\ Has(t2, "revenue")
     THEN SetCol(t2, "purchases",
                 LAMBDA r : IF Gt(Cell(r, "revenue"), Num(0))
                               /\ NumEq(Cell(r, "purchases"), Num(0))
                            THEN Num(1) ELSE Cell(r, "purchases"))
     ELSE t2

\* DataProcessor._validate_data_consistency
ValidateDataConsistency(t) ==
  LET t1 == IF Has(t, "clicks") /\ Has(t, "impressions")
            THEN SetCol(t, "clicks",
                        LAMBDA r : IF Gt(Cell(r, "clicks"), Cell(r, "impressions"))
                                   THEN Cell(r, "impressions") ELSE Cell(r, "clicks"))
            ELSE t
      t2 == IF Has(t1, "spend")
               /\ \E i \in 1..Len(t1.rows) : Lt(Cell(t1.rows[i], "spend"), Num(0))
            THEN MapCols(t1, {"spend"}, LAMBDA c, nm : ClipLower0(c))
            ELSE t1
  IN IF Has(t2, "purchases") /\ Has(t2, "revenue")
     THEN SetCol(t2, "purchases",
                 LAMBDA r : IF Gt(Cell(r, "revenue"), Num(0))
                               /\ NumEq(Cell(r, "purchases"), Num(0))
                            THEN Num(1) ELSE Cell(r, "purchases"))
     ELSE t2

\* the default account id 'desky_account_001'
DefaultAccount ==
  Str(<<"d", "e", "s", "k", "y", "_", "a", "c", "c", "o", "u", "n", "t", "_", "0", "0", "1">>)

\* df.index.astype(str) of a frame whose index labels are all 0
IndexStr_AllZero(r) == Str(IntToStr(0))

\* df.index.astype(str) for one row
IndexStr(r) == Str(IntToStr(r.idx))

\* Series.str.replace(' ', '_').str.lower() on one cell
Slug(c) == IF c.k = "str" THEN Str(StrLower(StrReplaceSpace(c.s))) ELSE Null

\* _generate_missing_fields raises KeyError when it reads a column that is missing
GenerateMissingFieldsRaises(t) ==
  \/ ~Has(t, "ad_id") /\ ~Has(t, "campaign_id") /\ ~Has(t, "campaign_name")
  \/ ~Has(t, "ad_name") /\ ~Has(t, "campaign_name")

\* DataProcessor._generate_missing_fields
GenerateMissingFields(t) ==
  LET t1 == IF ~Has(t, "account_id")
            THEN SetCol(t, "account_id", LAMBDA r : DefaultAccount) ELSE t
      t2 == IF ~Has(t1, "campaign_id") /\ Has(t1, "campaign_name")
            THEN SetCol(t1, "campaign_id",
                        LAMBDA r : StrCat(StrCat(Slug(Cell(r, "campaign_name")), Str(<<"_">>)),
                                          IndexStr(r)))
            ELSE t1
      t3 == IF ~Has(t2, "purchases")
            THEN IF Has(t2, "results")
                 THEN SetCol(t2, "purchases", LAMBDA r : Cell(r, "results"))
                 ELSE SetCol(t2, "purchases", LAMBDA r : Num(0))
            ELSE t2
      t4 == IF ~Has(t3, "revenue") THEN SetCol(t3, "revenue", LAMBDA r : Num(0)) ELSE t3
      t5 == IF ~Has(t4, "ad_id")
            THEN SetCol(t4, "ad_id",
                        LAMBDA r : StrCat(StrCat(Cell(r, "campaign_id"),
                                                 Str(<<"_", "a", "d", "_">>)),
                                          IndexStr(r)))
            ELSE t4
  IN IF ~Has(t5, "ad_name")
     THEN SetCol(t5, "ad_name",
                 LAMBDA r : StrCat(Cell(r, "campaign_name"), Str(<<" ", "-", " ", "A", "d">>)))
     ELSE t5

\* order of two cells of one sort key; missing values sort last
CellLess(a, b) ==
  IF IsNull(a) THEN FALSE
  ELSE IF IsNull(b) THEN TRUE
  ELSE IF a.k = "str" THEN StrLess(a.s, b.s)
  ELSE a.n * b.d < b.n * a.d

\* row a sorts strictly before row b under sort_values(['date', 'campaign_name'])
RowLess(a, b) ==
  \/ CellLess(Cell(a, "date"), Cell(b, "date"))
  \/ /\ ~CellLess(Cell(b, "date"), Cell(a, "date"))
     /\ CellLess(Cell(a, "campaign_name"), Cell(b, "campaign_name"))

\* the rows in sorted order; rows with equal keys keep their order (stable)
SortRows(rows) ==
  LET Pos(i) == 1 + Cardinality({j \in 1..Len(rows) :
                       \/ RowLess(rows[j], rows[i])
                       \/ ~RowLess(rows[i], rows[j]) /\ j < i})
  IN [p \in 1..Len(rows) |-> rows[CHOOSE i \in 1..Len(rows) : Pos(i) = p]]

\* sort_values(['date', 'campaign_name']).reset_index(drop=True)
SortAndReset(t) ==
  LET sorted == SortRows(t.rows)
  IN [cols |-> t.cols,
      rows |-> [i \in 1..Len(sorted) |-> [idx |-> i - 1, val |-> sorted[i].val]]]

\* sort_values raises KeyError when a sort column is missing
SortRaises(t) == ~Has(t, "date") \/ ~Has(t, "campaign_name")

\* clean_and_normalize raises instead of returning
CleanAndNormalizeRaises(t) ==
  LET filled == HandleMissingValues(CleanDataTypes(NormalizeColumnNames(t)))
  IN \/ RemoveDuplicatesRaises(filled)
     \/ GenerateMissingFieldsRaises(ValidateDataConsistency(RemoveDuplicates(filled)))
     \/ SortRaises(GenerateMissingFields(ValidateDataConsistency(RemoveDuplicates(filled))))

\* DataProcessor.clean_and_normalize, when it returns
CleanAndNormalize(t) ==
  SortAndReset(GenerateMissingFields(ValidateDataConsistency(RemoveDuplicates(
    HandleMissingValues(CleanDataTypes(NormalizeColumnNames(t)))))))

(* ---------------------------- KPICalculator ---------------------------- *)

RECURSIVE Gcd(_, _)
Gcd(a, b) == IF b = 0 THEN a ELSE Gcd(b, a % b)

Abs(x) == IF x < 0 THEN 0 - x ELSE x

\* the number n/d (d # 0) in lowest terms with a positive denominator
Frac(n, d) ==
  LET g == Gcd(Abs(n), Abs(d))
      sgn == IF d < 0 THEN 0 - 1 ELSE 1
  IN [k |-> "num", n |-> sgn * (n \div g), d |-> sgn * (d \div g), s |-> <<>>]

\* a / b on numeric cells, used only where b # 0; NaN propagates
Div(a, b) == IF a.k = "num" /\ b.k = "num" THEN Frac(a.n * b.d, a.d * b.n) ELSE Null

\* a * b on numeric cells
Mul(a, b) == IF a.k = "num" /\ b.k = "num" THEN Frac(a.n * b.n, a.d * b.d) ELSE Null

\* a + b on numeric cells
Add(a, b) == IF a.k = "num" /\ b.k = "num" THEN Frac(a.n * b.d + b.n * a.d, a.d * b.d) ELSE Null

\* np.where(den > 0, num / den, 0)
Ratio(num, den) == IF Gt(den, Num(0)) THEN Div(num, den) ELSE Num(0)

\* KPICalculator._calculate_cpc
calculate_cpc(t) ==
  SetCol(t, "cpc", LAMBDA r : Ratio(Cell(r, "spend"), Cell(r, "clicks")))

\* _calculate_cpm without the factor 1000
calculate_cpm_PerImpression(t) ==
  SetCol(t, "cpm", LAMBDA r : Ratio(Cell(r, "spend"), Cell(r, "impressions")))

\* KPICalculator._calculate_cpm
calculate_cpm(t) ==
  SetCol(t, "cpm", LAMBDA r : IF Gt(Cell(r, "impressions"), Num(0))
                              THEN Mul(Div(Cell(r, "spend"), Cell(r, "impressions")), Num(1000))
                              ELSE Num(0))

\* KPICalculator._calculate_ctr
calculate_ctr(t) ==
  SetCol(t, "ctr", LAMBDA r : Ratio(Cell(r, "clicks"), Cell(r, "impressions")))

\* KPICalculator._calculate_cpa
calculate_cpa(t) ==
  IF Has(t, "purchases")
  THEN SetCol(t, "cpa", LAMBDA r : Ratio(Cell(r, "spend"), Cell(r, "purchases")))
  ELSE t

\* KPICalculator._calculate_roas
calculate_roas(t) ==
  IF Has(t, "revenue")
  THEN SetCol(t, "roas", LAMBDA r : Ratio(Cell(r, "revenue"), Cell(r, "spend")))
  ELSE t

\* KPICalculator._calculate_cvr
calculate_cvr(t) ==
  IF Has(t, "purchases")
  THEN SetCol(t, "cvr", LAMBDA r : Ratio(Cell(r, "purchases"), Cell(r, "clicks")))
  ELSE t

\* KPICalculator._calculate_frequency
calculate_frequency(t) ==
  SetCol(t, "frequency",
         LAMBDA r : IF Gt(Cell(r, "clicks"), Num(0))
                    THEN Div(Cell(r, "impressions"), Cell(r, "clicks"))
                    ELSE Div(Cell(r, "impressions"), Num(1)))

\* KPICalculator._calculate_derived_metrics
calculate_derived_metrics(t) ==
  LET t1 == SetCol(t, "cost_per_impression",
                   LAMBDA r : Ratio(Cell(r, "spend"), Cell(r, "impressions")))
      t2 == IF Has(t1, "revenue")
            THEN SetCol(t1, "revenue_per_impression",
                        LAMBDA r : Ratio(Cell(r, "revenue"), Cell(r, "impressions")))
            ELSE t1
      t3 == IF Has(t2, "revenue")
            THEN SetCol(t2, "revenue_per_click",
                        LAMBDA r : Ratio(Cell(r, "revenue"), Cell(r, "clicks")))
            ELSE t2
      t4 == IF Has(t3, "purchases")
            THEN SetCol(t3, "purchase_rate",
                        LAMBDA r : Ratio(Cell(r, "purchases"), Cell(r, "impressions")))
            ELSE t3
  IN IF Has(t4, "revenue") /\ Has(t4, "purchases")
     THEN SetCol(t4, "aov", LAMBDA r : Ratio(Cell(r, "revenue"), Cell(r, "purchases")))
     ELSE t4

\* calculate_all_kpis raises KeyError when spend, impressions or clicks is missing
CalculateAllKpisRaises(t) == \E nm \in {"spend", "impressions", "clicks"} : ~Has(t, nm)

\* KPICalculator.calculate_all_kpis
calculate_all_kpis(t) ==
  LET basic == calculate_ctr(calculate_cpm(calculate_cpc(t)))
      conv == IF Has(basic, "purchases") THEN calculate_cvr(calculate_cpa(basic)) ELSE basic
      roas == IF Has(conv, "revenue") THEN calculate_roas(conv) ELSE conv
  IN calculate_derived_metrics(calculate_frequency(roas))

\* the distinct non-null values of column nm in ascending order (groupby keys)
GroupKeys(t, nm) ==
  LET ks == {Cell(t.rows[i], nm) : i \in 1..Len(t.rows)} \ {Null}
      Rank(c) == 1 + Cardinality({x \in ks : CellLess(x, c)})
  IN [p \in 1..Cardinality(ks) |-> CHOOSE c \in ks : Rank(c) = p]

\* the rows of the group of key
GroupRows(t, nm, key) == SelectSeq(t.rows, LAMBDA r : Cell(r, nm) = key)

\* 'sum' over the rows of a group; NaN is skipped
RECURSIVE SumOf(_, _)
SumOf(rows, nm) ==
  IF rows = <<>> THEN Num(0)
  ELSE Add(FillNa(Cell(Head(rows), nm), Num(0)), SumOf(Tail(rows), nm))

\* 'count' in place of 'nunique'
NUnique_Count(rows, nm) == Num(Len(rows))

\* 'nunique' over the rows of a group
NUnique(rows, nm) == Num(Cardinality({Cell(rows[i], nm) : i \in 1..Len(rows)} \ {Null}))

\* 'min' over the rows of a group
MinOf(rows, nm) ==
  LET cs == {Cell(rows[i], nm) : i \in 1..Len(rows)} \ {Null}
  IN IF cs = {} THEN Null ELSE CHOOSE c \in cs : \A x \in cs : ~CellLess(x, c)

\* 'max' over the rows of a group
MaxOf(rows, nm) ==
  LET cs == {Cell(rows[i], nm) : i \in 1..Len(rows)} \ {Null}
  IN IF cs = {} THEN Null ELSE CHOOSE c \in cs : \A x \in cs : ~CellLess(c, x)

\* one aggregation of agg_dict: source column, function, name of the result column
Agg(col, fn, out) == [col |-> col, fn |-> fn, out |-> out]

\* df.groupby(by).agg(...).reset_index() with the result columns named by the aggs
GroupAgg(t, by, aggs) ==
  LET keys == GroupKeys(t, by)
      outcols == {Col(by)} \cup {Col(a.out) : a \in aggs}
      Value(key, c) ==
        IF c = Col(by) THEN key
        ELSE LET a == CHOOSE x \in aggs : Col(x.out) = c
                 g == GroupRows(t, by, key)
             IN CASE a.fn = "sum" -> SumOf(g, a.col)
                  [] a.fn = "nunique" -> NUnique(g, a.col)
                  [] a.fn = "min" -> MinOf(g, a.col)
                  [] OTHER -> MaxOf(g, a.col)
  IN [cols |-> outcols,
      rows |-> [i \in 1..Len(keys) |->
                  [idx |-> i - 1, val |-> [c \in outcols |-> Value(keys[i], c)]]]]

\* the optional entries of agg_dict: purchases and revenue when available
OptionalAggs(t, Name(_, _)) ==
  (IF Has(t, "purchases") THEN {Agg("purchases", "sum", Name("purchases", "sum"))} ELSE {})
  \cup (IF Has(t, "revenue") THEN {Agg("revenue", "sum", Name("revenue", "sum"))} ELSE {})

\* a result column of an agg_dict whose values are all strings keeps its name
PlainName(col, fn) == col

\* get_date_summary raises KeyError when a column it groups or sums is missing
GetDateSummaryRaises(t) ==
  \E nm \in {"date", "spend", "impressions", "clicks", "campaign_id"} : ~Has(t, nm)

\* the group sums of get_date_summary
DateAggregate(t) ==
  GroupAgg(t, "date",
           {Agg("spend", "sum", "spend"), Agg("impressions", "sum", "impressions"),
            Agg("clicks", "sum", "clicks"), Agg("campaign_id", "nunique", "campaign_id")}
           \cup OptionalAggs(t, PlainName))

\* DataFrame.rename(columns={old: new})
RenameColumn(t, old, new) ==
  LET Ren(c) == IF c = Col(old) THEN Col(new) ELSE c
      newcols == {Ren(c) : c \in t.cols}
  IN [cols |-> newcols,
      rows |-> [i \in 1..Len(t.rows) |->
                  [idx |-> t.rows[i].idx,
                   val |-> [c \in newcols |->
                              t.rows[i].val[CHOOSE o \in t.cols : Ren(o) = c]]]]]

\* KPICalculator.get_date_summary
get_date_summary(t) ==
  RenameColumn(calculate_all_kpis(DateAggregate(t)), "campaign_id", "active_campaigns")

\* A list among the values of agg_dict makes every result column a pair
\* (column, function); the pairs are flattened to '_'.join(col).strip('_').
FlatName(col, fn) == CASE col = "spend" /\ fn = "sum" -> "spend_sum"
                       [] col = "impressions" /\ fn = "sum" -> "impressions_sum"
                       [] col = "clicks" /\ fn = "sum" -> "clicks_sum"
                       [] col = "purchases" /\ fn = "sum" -> "purchases_sum"
                       [] col = "revenue" /\ fn = "sum" -> "revenue_sum"
                       [] col = "date" /\ fn = "min" -> "date_min"
                       [] col = "date" /\ fn = "max" -> "date_max"
                       [] OTHER -> col

\* the group sums of get_campaign_summary, with the flattened column names
CampaignAggregate(t) ==
  GroupAgg(t, "campaign_id",
           {Agg("spend", "sum", FlatName("spend", "sum")),
            Agg("impressions", "sum", FlatName("impressions", "sum")),
            Agg("clicks", "sum", FlatName("clicks", "sum")),
            Agg("date", "min", FlatName("date", "min")),
            Agg("date", "max", FlatName("date", "max"))}
           \cup OptionalAggs(t, FlatName))

\* get_campaign_summary raises KeyError: a column it aggregates is missing, or
\* calculate_all_kpis does not find spend, impressions, clicks in the aggregate
GetCampaignSummaryRaises(t) ==
  \/ \E nm \in {"campaign_id", "spend", "impressions", "clicks", "date"} : ~Has(t, nm)
  \/ CalculateAllKpisRaises(CampaignAggregate(t))

\* KPICalculator.get_campaign_summary
get_campaign_summary(t) == calculate_all_kpis(CampaignAggregate(t))

(* ---------------------------- input tables ----------------------------- *)

\* the canonical name a header is renamed to
Canon(h) == RenameCol(LowerStrip(h)).name

\* the columns of a Meta insights table after MetaAdsClient._process_insights_data
HeadersApi ==
  {Col(nm) : nm \in {"account_id", "campaign_id", "date", "spend", "impressions", "clicks",
                     "purchases", "revenue", "ad_id", "campaign_name"}}

\* the header row of a Meta Ads Manager export, as the application lists it
HeadersExport ==
  {Hdr(nm, TRUE, FALSE) : nm \in {"campaign name", "reporting starts", "amount spent (inr)",
                                   "impressions", "link clicks", "results"}}

\* exactly ExcelValidator.REQUIRED_COLUMNS, written with capitals and blanks
HeadersRequired ==
  {Hdr(nm, TRUE, TRUE) : nm \in {"account_id", "campaign_id", "date", "spend",
                                  "impressions", "clicks"}}

\* a sheet that reports revenue but no purchase count
HeadersRevenue ==
  {Col(nm) : nm \in {"campaign_name", "date", "spend", "impressions", "clicks", "revenue"}}

\* a campaign-level table: identifiers and all metrics, no ad_id
HeadersCampaign ==
  {Col(nm) : nm \in {"account_id", "campaign_id", "campaign_name", "date", "spend",
                     "impressions", "clicks", "purchases", "revenue"}}

HeaderSets == {HeadersApi, HeadersExport, HeadersRequired, HeadersRevenue, HeadersCampaign}

\* the header rows of the tables whose metrics are varied
MetricHeaderSets == {HeadersApi, HeadersExport, HeadersRequired, HeadersRevenue}

\* text that is neither a number nor a date
Garbage == Str(<<"n", "/", "a">>)

\* raw cells per canonical column, with the identifying columns varied
KeyCells ==
  [nm \in {"account_id", "campaign_id", "campaign_name", "date", "ad_id", "spend",
           "impressions", "clicks", "purchases", "revenue"} |->
     CASE nm = "account_id" -> {Str(<<"a", "c", "t">>)}
       [] nm = "campaign_id" -> {Str(<<"c", "1">>), Str(<<"c", "2">>)}
       [] nm = "campaign_name" -> {Str(<<"A", " ", "b">>), Str(<<"a", "_", "b">>), Null}
       [] nm = "date" -> {Date(1), Garbage}
       [] nm = "ad_id" -> {Str(<<"x">>), Str(<<"y">>)}
       [] nm = "spend" -> {Num(2)}
       [] nm = "impressions" -> {Num(2)}
       [] nm = "clicks" -> {Num(1)}
       [] nm = "purchases" -> {Null}
       [] nm = "revenue" -> {Null}]

\* raw cells with spend, impressions and clicks varied
ClickCells ==
  [nm \in DOMAIN KeyCells |->
     CASE nm = "spend" -> {Num(-1), Num(2)}
       [] nm = "impressions" -> {Num(-1), Num(2)}
       [] nm = "clicks" -> {Num(-1), Num(3), Garbage}
       [] nm = "campaign_id" -> {Str(<<"c", "1">>)}
       [] nm = "campaign_name" -> {Str(<<"A", " ", "b">>)}
       [] nm = "ad_id" -> {Str(<<"x">>)}
       [] nm = "date" -> {Null}
       [] OTHER -> KeyCells[nm]]

\* raw cells with purchases and revenue varied
ConversionCells ==
  [nm \in DOMAIN KeyCells |->
     CASE nm = "purchases" -> {Num(-1), Num(0), Num(2), Null}
       [] nm = "revenue" -> {Num(-1), Num(5), Null}
       [] nm = "spend" -> {Num(2)}
       [] nm = "impressions" -> {Num(2)}
       [] nm = "clicks" -> {Num(1)}
       [] OTHER -> ClickCells[nm]]

\* all assignments of cells to the headers H, each cell drawn from its column's set
RECURSIVE RowVals(_, _)
RowVals(H, cells) ==
  IF H = {} THEN {<<>>}
  ELSE LET h == CHOOSE x \in H : TRUE
       IN {(h :> v) @@ f : v \in cells[Canon(h)], f \in RowVals(H \ {h}, cells)}

\* a freshly read table has the index 0, 1, 2, ...
NewTable(H, vals) ==
  [cols |-> H, rows |-> [i \in 1..Len(vals) |-> [idx |-> i - 1, val |-> vals[i]]]]

\* one day per row, latest day first, so that no row is a duplicate of another
DatedVals(H, vals) ==
  [i \in 1..Len(vals) |->
     [h \in H |-> IF Canon(h) = "date" THEN Date(Len(vals) + 1 - i) ELSE vals[i][h]]]

\* raw is a table whose rows differ in the identifying columns
IsKeyTable(t) ==
  \E H \in HeaderSets, n \in 1..MaxRows :
    \E vals \in [1..n -> RowVals(H, KeyCells)] : t = NewTable(H, vals)

\* raw is a table whose rows differ in the metrics
IsMetricTable(t) ==
  \E H \in MetricHeaderSets, n \in 1..MaxRows :
    \E vals \in [1..n -> RowVals(H, ClickCells) \cup RowVals(H, ConversionCells)] :
      t = NewTable(H, DatedVals(H, vals))

(* ------------------------ components at rest -------------------------- *)

\* no column names have been read
NamesIdle == header = <<>> /\ columns = <<>> /\ once = <<>>

\* the value of a validator that has not returned
NoResult == [is_valid |-> FALSE, text |-> "", errors |-> <<>>, warnings |-> {}]

\* ExcelValidator.__init__: errors = [], warnings = []
GateIdle == errors = <<>> /\ warnings = {} /\ result = NoResult

\* st.session_state after its initialisation: every entry is None
NoSession == [processed_data |-> NoTable, kpis |-> NoTable, insights |-> "None"]

\* no run of the script has started
AppIdle ==
  /\ source = "none" /\ session = NoSession /\ calls = <<>> /\ reported = <<>>
  /\ shown = NoSession

\* no account has been selected
FetchIdle == accounts = <<>> /\ acct = 0 /\ frames = <<>> /\ combined_data = <<>>

\* no method of the client is being called
ClientIdle == token = <<>> /\ verdict = <<>> /\ actions_data = <<>> /\ extracted = <<>>

\* no request has been sent
PageIdle ==
  /\ pages = <<>> /\ url = 0 /\ requests = <<>> /\ all_data = <<>>
  /\ FetchIdle /\ ClientIdle

\* no table is being processed
PipelineIdle ==
  df = NoTable /\ kpis = NoTable /\ dsum = NoTable /\ csum = NoTable /\ again = NoTable

(* ------------------------------ behaviour ------------------------------ *)

\* clean_and_normalize is called with a raw table; processed_df = df.copy()
Init ==
  /\ IsKeyTable(raw) \/ IsMetricTable(raw)
  /\ df = raw
  /\ pc = "start"
  /\ kpis = NoTable
  /\ dsum = NoTable
  /\ csum = NoTable
  /\ again = NoTable
  /\ NamesIdle /\ GateIdle /\ AppIdle /\ PageIdle

\* processed_df = self._normalize_column_names(processed_df)
NormalizeColumnNamesStep ==
  /\ pc = "start"
  /\ df' = NormalizeColumnNames(df)
  /\ pc' = "normalized"
  /\ UNCHANGED <<raw, kpis, dsum, csum, again, nameVars, gateVars, appVars, pageVars>>

\* processed_df = self._clean_data_types(processed_df)
CleanDataTypesStep ==
  /\ pc = "normalized"
  /\ df' = CleanDataTypes(df)
  /\ pc' = "typed"
  /\ UNCHANGED <<raw, kpis, dsum, csum, again, nameVars, gateVars, appVars, pageVars>>

\* processed_df = self._handle_missing_values(processed_df)
HandleMissingValuesStep ==
  /\ pc = "typed"
  /\ df' = HandleMissingValues(df)
  /\ pc' = "filled"
  /\ UNCHANGED <<raw, kpis, dsum, csum, again, nameVars, gateVars, appVars, pageVars>>

\* processed_df = self._remove_duplicates(processed_df)
RemoveDuplicatesStep ==
  /\ pc = "filled"
  /\ IF RemoveDuplicatesRaises(df)
     THEN pc' = "raised" /\ df' = df
     ELSE pc' = "deduplicated" /\ df' = RemoveDuplicates(df)
  /\ UNCHANGED <<raw, kpis, dsum, csum, again, nameVars, gateVars, appVars, pageVars>>

\* processed_df = self._validate_data_consistency(processed_df)
ValidateDataConsistencyStep ==
  /\ pc = "deduplicated"
  /\ df' = ValidateDataConsistency(df)
  /\ pc' = "validated"
  /\ UNCHANGED <<raw, kpis, dsum, csum, again, nameVars, gateVars, appVars, pageVars>>

\* processed_df = self._generate_missing_fields(processed_df)
GenerateMissingFieldsStep ==
  /\ pc = "validated"
  /\ IF GenerateMissingFieldsRaises(df)
     THEN pc' = "raised" /\ df' = df
     ELSE pc' = "generated" /\ df' = GenerateMissingFields(df)
  /\ UNCHANGED <<raw, kpis, dsum, csum, again, nameVars, gateVars, appVars, pageVars>>

\* processed_df.sort_values(['date', 'campaign_name']).reset_index(drop=True); return
SortAndReturnStep ==
  /\ pc = "generated"
  /\ IF SortRaises(df)
     THEN pc' = "raised" /\ df' = df
     ELSE pc' = "returned" /\ df' = SortAndReset(df)
  /\ UNCHANGED <<raw, kpis, dsum, csum, again, nameVars, gateVars, appVars, pageVars>>

\* clean_and_normalize is applied to the table it returned
Reapply ==
  /\ pc = "returned"
  /\ IF CleanAndNormalizeRaises(df)
     THEN pc' = "reapply_raised" /\ again' = NoTable
     ELSE pc' = "reapplied" /\ again' = CleanAndNormalize(df)
  /\ UNCHANGED <<raw, df, kpis, dsum, csum, nameVars, gateVars, appVars, pageVars>>

Next ==
  \/ NormalizeColumnNamesStep
  \/ CleanDataTypesStep
  \/ HandleMissingValuesStep
  \/ RemoveDuplicatesStep
  \/ ValidateDataConsistencyStep
  \/ GenerateMissingFieldsStep
  \/ SortAndReturnStep
  \/ Reapply

Spec == Init /\ [][Next]_vars

(* ----------------------- KPICalculator on a table ---------------------- *)

\* the columns every table handed to the calculator has here
KpiBaseHeaders == {Col(nm) : nm \in {"campaign_id", "date", "spend", "impressions", "clicks"}}

\* with or without the purchases column, with or without the revenue column
KpiHeaderSets ==
  {KpiBaseHeaders \cup {Col(nm) : nm \in opt} : opt \in SUBSET {"purchases", "revenue"}}

\* cells of rows that differ in the metrics
KpiMetricCells ==
  [nm \in DOMAIN KeyCells |->
     CASE nm = "campaign_id" -> {Str(<<"c", "1">>)}
       [] nm = "date" -> {Date(1)}
       [] nm = "spend" -> {Num(0), Num(3)}
       [] nm = "impressions" -> {Num(0), Num(1000)}
       [] nm = "clicks" -> {Num(0), Num(2)}
       [] nm = "purchases" -> {Num(0), Num(1)}
       [] nm = "revenue" -> {Num(5)}
       [] OTHER -> KeyCells[nm]]

\* cells of rows that differ in campaign, day and impressions
KpiGroupCells ==
  [nm \in DOMAIN KeyCells |->
     CASE nm = "campaign_id" -> {Str(<<"c", "1">>), Str(<<"c", "2">>)}
       [] nm = "date" -> {Date(1), Date(2)}
       [] nm = "spend" -> {Num(3)}
       [] nm = "impressions" -> {Num(2), Num(4)}
       [] nm = "clicks" -> {Num(2)}
       [] nm = "purchases" -> {Num(1)}
       [] nm = "revenue" -> {Num(5)}
       [] OTHER -> KeyCells[nm]]

\* the columns of a table whose source supplied a Frequency column, which
\* column_mapping carries through as frequency
KpiFrequencyHeaders == KpiBaseHeaders \cup {Col("frequency")}

\* cells of rows with a frequency of the source
KpiFrequencyCells ==
  [nm \in DOMAIN KeyCells \cup {"frequency"} |->
     CASE nm = "campaign_id" -> {Str(<<"c", "1">>)}
       [] nm = "date" -> {Date(1)}
       [] nm = "spend" -> {Num(3)}
       [] nm = "impressions" -> {Num(4)}
       [] nm = "clicks" -> {Num(0), Num(2)}
       [] nm = "frequency" -> {Num(3)}
       [] OTHER -> KeyCells[nm]]

\* a caller holds a table and a KPICalculator
KpiInit ==
  /\ \/ \E H \in KpiHeaderSets, n \in 1..MaxRows :
          \E vals \in [1..n -> RowVals(H, KpiMetricCells) \cup RowVals(H, KpiGroupCells)] :
            df = NewTable(H, vals)
     \/ \E n \in 1..MaxRows :
          \E vals \in [1..n -> RowVals(KpiFrequencyHeaders, KpiFrequencyCells)] :
            df = NewTable(KpiFrequencyHeaders, vals)
  /\ raw = NoTable
  /\ pc = "returned"
  /\ kpis = NoTable
  /\ dsum = NoTable
  /\ csum = NoTable
  /\ again = NoTable
  /\ NamesIdle /\ GateIdle /\ AppIdle /\ PageIdle

\* kpis_data = calculator.calculate_all_kpis(processed_data)
CalculateAllKpisStep ==
  /\ pc = "returned"
  /\ IF CalculateAllKpisRaises(df)
     THEN pc' = "kpis_raised" /\ kpis' = NoTable
     ELSE pc' = "kpis" /\ kpis' = calculate_all_kpis(df)
  /\ UNCHANGED <<raw, df, dsum, csum, again, nameVars, gateVars, appVars, pageVars>>

\* calculator.get_date_summary(kpis_data)
GetDateSummaryStep ==
  /\ pc = "kpis"
  /\ IF GetDateSummaryRaises(kpis)
     THEN pc' = "date_summary_raised" /\ dsum' = NoTable
     ELSE pc' = "date_summary" /\ dsum' = get_date_summary(kpis)
  /\ UNCHANGED <<raw, df, kpis, csum, again, nameVars, gateVars, appVars, pageVars>>

\* calculator.get_campaign_summary(kpis_data)
GetCampaignSummaryStep ==
  /\ pc = "kpis"
  /\ IF GetCampaignSummaryRaises(kpis)
     THEN pc' = "campaign_summary_raised" /\ csum' = NoTable
     ELSE pc' = "campaign_summary" /\ csum' = get_campaign_summary(kpis)
  /\ UNCHANGED <<raw, df, kpis, dsum, again, nameVars, gateVars, appVars, pageVars>>

KpiNext ==
  \/ CalculateAllKpisStep
  \/ GetDateSummaryStep
  \/ GetCampaignSummaryStep

KpiSpec == KpiInit /\ [][KpiNext]_vars

(* --------------- _normalize_column_names on a header row --------------- *)

\* largest number of columns of a header row
MaxCols == 2

\* header texts: synonyms of the table, canonical names and names it does not list
HeaderNames ==
  {"campaign name", "amount spent (inr)", "results", "reach", "spend", "purchases", "ad name"}

\* each text as written in lower case or with capitals, with or without blanks around it
HeaderPool == {Hdr(nm, caps, pad) : nm \in HeaderNames, caps \in BOOLEAN, pad \in BOOLEAN}

\* the column labels after _normalize_column_names, position by position:
\* df.columns = [col.lower().strip() ...]; df.rename(columns=column_mapping_lower)
NormalizeColumnList(cols) == [i \in 1..Len(cols) |-> RenameCol(LowerStrip(cols[i]))]

\* a table with some header row is read
ColumnInit ==
  /\ \E n \in 1..MaxCols : header \in [1..n -> HeaderPool]
  /\ columns = header
  /\ once = <<>>
  /\ pc = "start"
  /\ raw = NoTable
  /\ PipelineIdle /\ GateIdle /\ AppIdle /\ PageIdle

\* df = self._normalize_column_names(df)
NormalizeNamesStep ==
  /\ pc = "start"
  /\ columns' = NormalizeColumnList(columns)
  /\ once' = columns'
  /\ pc' = "once"
  /\ UNCHANGED <<raw, df, kpis, dsum, csum, again, header, gateVars, appVars, pageVars>>

\* _normalize_column_names is applied to the table it returned
NormalizeNamesAgainStep ==
  /\ pc = "once"
  /\ columns' = NormalizeColumnList(columns)
  /\ pc' = "twice"
  /\ UNCHANGED <<raw, df, kpis, dsum, csum, again, header, once, gateVars, appVars, pageVars>>

ColumnNext ==
  \/ NormalizeNamesStep
  \/ NormalizeNamesAgainStep

ColumnSpec == ColumnInit /\ [][ColumnNext]_vars

(* --------------------------- ExcelValidator ---------------------------- *)

\* largest number of rows of an uploaded sheet
MaxGateRows == 2

\* ExcelValidator.REQUIRED_COLUMNS
REQUIRED_COLUMNS == <<"account_id", "campaign_id", "date", "spend", "impressions", "clicks">>

\* one entry of errors or warnings: its text, the columns it names, the count it gives
Msg(kind, cols, n) == [kind |-> kind, cols |-> cols, n |-> n]

\* what a check leaves behind: its return value and what it appended
Outcome(ok, errs, warns) == [ok |-> ok, errors |-> errs, warnings |-> warns]

\* df_norm.columns = [col.lower().strip() for col in df.columns]
LowerStripColumns(t) ==
  LET newcols == {LowerStrip(h) : h \in t.cols}
  IN [cols |-> newcols,
      rows |-> [i \in 1..Len(t.rows) |->
                  [idx |-> t.rows[i].idx,
                   val |-> [c \in newcols |->
                              t.rows[i].val[CHOOSE h \in t.cols : LowerStrip(h) = c]]]]]

\* ExcelValidator._validate_structure without the column count
ValidateStructure_NoColumnCount(t) ==
  IF t.rows = <<>> \/ t.cols = {}
  THEN Outcome(FALSE, <<Msg("Excel file is empty", <<>>, 0)>>, {})
  ELSE Outcome(TRUE, <<>>, {})

\* ExcelValidator._validate_structure
ValidateStructure(t) ==
  IF t.rows = <<>> \/ t.cols = {}
  THEN Outcome(FALSE, <<Msg("Excel file is empty", <<>>, 0)>>, {})
  ELSE IF Cardinality(t.cols) < Len(REQUIRED_COLUMNS)
  THEN Outcome(FALSE, <<Msg("Insufficient columns", <<>>, Cardinality(t.cols))>>, {})
  ELSE Outcome(TRUE, <<>>, {})

\* ExcelValidator._validate_columns
ValidateColumns(t) ==
  LET df_columns == {LowerStrip(h).name : h \in t.cols}
      missing_columns == SelectSeq(REQUIRED_COLUMNS, LAMBDA c : c \notin df_columns)
  IN IF missing_columns # <<>>
     THEN Outcome(FALSE, <<Msg("Missing required columns", missing_columns, 0)>>, {})
     ELSE Outcome(TRUE, <<>>, {})

\* pd.api.types.is_numeric_dtype(df[nm]): a column of numbers and NaN
IsNumericDtype(t, nm) ==
  \A i \in 1..Len(t.rows) : Cell(t.rows[i], nm).k \in {"num", "null"}

\* the column after "if not is_numeric_dtype: df[nm] = pd.to_numeric(df[nm], errors='coerce')"
CoercedColumn(t, nm) ==
  [i \in 1..Len(t.rows) |->
     IF IsNumericDtype(t, nm) THEN Cell(t.rows[i], nm) ELSE ToNumeric(Cell(t.rows[i], nm))]

\* pd.to_datetime(errors='raise') on one cell: text that is no date raises
ToDatetimeRaises(c) == c.k = "str"

\* ExcelValidator._validate_data_content
ValidateDataContent(t) ==
  LET df_norm == LowerStripColumns(t)
      n == Len(df_norm.rows)
      empty_rows == Cardinality({i \in 1..n : \A c \in df_norm.cols : IsNull(df_norm.rows[i].val[c])})
      warns == IF empty_rows > 0
               THEN {Msg("completely empty rows found", <<>>, empty_rows)} ELSE {}
      negative == SelectSeq(<<"spend", "impressions", "clicks">>,
                            LAMBDA nm : Has(df_norm, nm)
                                        /\ \E i \in 1..n : Lt(CoercedColumn(df_norm, nm)[i], Num(0)))
      id_empty == SelectSeq(<<"account_id", "campaign_id">>,
                            LAMBDA nm : Has(df_norm, nm)
                                        /\ \E i \in 1..n : IsNull(Cell(df_norm.rows[i], nm)))
  IN IF negative # <<>>
     THEN Outcome(FALSE, <<Msg("Negative values found in column", <<Head(negative)>>, 0)>>, warns)
     ELSE IF Has(df_norm, "date")
             /\ \E i \in 1..n : ToDatetimeRaises(Cell(df_norm.rows[i], "date"))
     THEN Outcome(FALSE, <<Msg("Date column contains invalid date formats", <<>>, 0)>>, warns)
     ELSE IF id_empty # <<>>
     THEN Outcome(FALSE, <<Msg("column contains empty values", <<Head(id_empty)>>, 0)>>, warns)
     ELSE Outcome(TRUE, <<>>, warns)

\* Series.replace(0, np.nan) on one cell
ReplaceZero(c) == IF NumEq(c, Num(0)) THEN Null ELSE c

\* a / b of two columns raises TypeError when a row holds text in one of them
\* and a value in the other: pandas divides the rows where neither is missing
TrueDivRaises(a, b) == ~IsNull(a) /\ ~IsNull(b) /\ (a.k # "num" \/ b.k # "num")

\* ExcelValidator._check_warnings: what it appends, and whether it raises
CheckWarnings(t) ==
  LET df_norm == LowerStripColumns(t)
      n == Len(df_norm.rows)
      Nulls(c) == Cardinality({i \in 1..n : IsNull(df_norm.rows[i].val[c])})
      missing == {Msg("has missing values", <<c.name>>, Nulls(c)) :
                    c \in {x \in df_norm.cols : 10 * Nulls(x) > n}}
      duplicate_count ==
        Cardinality({i \in 1..n : \E j \in 1..(i - 1) : df_norm.rows[j].val = df_norm.rows[i].val})
      duplicates == IF duplicate_count > 0
                    THEN {Msg("duplicate rows found", <<>>, duplicate_count)} ELSE {}
      Spend(i) == Cell(df_norm.rows[i], "spend")
      Clicks(i) == Cell(df_norm.rows[i], "clicks")
      Impressions(i) == Cell(df_norm.rows[i], "impressions")
      cpc == Has(df_norm, "spend") /\ Has(df_norm, "clicks")
      cpc_raises == cpc /\ \E i \in 1..n : TrueDivRaises(Spend(i), ReplaceZero(Clicks(i)))
      high_cpc_count ==
        Cardinality({i \in 1..n : Gt(Div(Spend(i), ReplaceZero(Clicks(i))), Num(100))})
      high_cpc == IF cpc /\ high_cpc_count > 0
                  THEN {Msg("records with CPC > $100", <<>>, high_cpc_count)} ELSE {}
      ctr == Has(df_norm, "impressions") /\ Has(df_norm, "clicks")
      ctr_raises == ctr /\ \E i \in 1..n : TrueDivRaises(Clicks(i), ReplaceZero(Impressions(i)))
      impossible_ctr ==
        Cardinality({i \in 1..n : Gt(Div(Clicks(i), ReplaceZero(Impressions(i))), Num(1))})
  IN IF cpc_raises
     THEN [raises |-> TRUE, errors |-> <<>>, warnings |-> missing \cup duplicates]
     ELSE IF ctr_raises
     THEN [raises |-> TRUE, errors |-> <<>>, warnings |-> missing \cup duplicates \cup high_cpc]
     ELSE [raises |-> FALSE,
           errors |-> IF ctr /\ impossible_ctr > 0
                      THEN <<Msg("records with clicks > impressions (impossible)", <<>>,
                                 impossible_ctr)>>
                      ELSE <<>>,
           warnings |-> missing \cup duplicates \cup high_cpc]

\* return False, "; ".join(self.errors)
Reject(errs) == [is_valid |-> FALSE, text |-> "", errors |-> errs, warnings |-> {}]

\* return True, "Validation successful" with the warnings, if any
Accept(warns) ==
  [is_valid |-> TRUE, text |-> "Validation successful", errors |-> <<>>, warnings |-> warns]

\* except Exception: return False, "Error reading Excel file: ..."
ReadError ==
  [is_valid |-> FALSE, text |-> "Error reading Excel file", errors |-> <<>>, warnings |-> {}]

\* ExcelValidator.validate_excel_file on the table read from the file
validate_excel_file(t) ==
  LET structure == ValidateStructure(t)
      present == ValidateColumns(t)
      content == ValidateDataContent(t)
      quality == CheckWarnings(t)
  IN IF ~structure.ok THEN Reject(structure.errors)
     ELSE IF ~present.ok THEN Reject(present.errors)
     ELSE IF ~content.ok THEN Reject(content.errors)
     ELSE IF quality.raises THEN ReadError
     ELSE Accept(content.warnings \cup quality.warnings)

\* the columns the application lists as required of an Excel sheet
HeadersListed ==
  {Hdr(nm, TRUE, FALSE) : nm \in {"campaign name", "reporting starts", "amount spent (inr)",
                                   "impressions", "link clicks"}}

\* the header rows of the uploaded sheets
GateHeaderSets == {HeadersRequired, HeadersApi, HeadersExport, HeadersListed}

\* the cells of a well-formed row
GateCells ==
  [nm \in DOMAIN KeyCells |->
     CASE nm = "account_id" -> {Str(<<"a", "c", "t">>)}
       [] nm = "campaign_id" -> {Str(<<"c", "1">>)}
       [] nm = "campaign_name" -> {Str(<<"A", " ", "b">>)}
       [] nm = "date" -> {Date(1)}
       [] nm = "ad_id" -> {Str(<<"x">>)}
       [] nm = "spend" -> {Num(2)}
       [] nm = "impressions" -> {Num(2)}
       [] nm = "clicks" -> {Num(1)}
       [] nm = "purchases" -> {Num(1)}
       [] nm = "revenue" -> {Num(5)}]

\* rows with negative counts, and with more clicks than impressions
GateSignCells ==
  [nm \in DOMAIN KeyCells |->
     CASE nm = "spend" -> {Num(-1), Num(2)}
       [] nm = "impressions" -> {Num(-1), Num(2)}
       [] nm = "clicks" -> {Num(-1), Num(3)}
       [] OTHER -> GateCells[nm]]

\* rows with text or nothing where a number belongs, and with a high cost per click
GateTextCells ==
  [nm \in DOMAIN KeyCells |->
     CASE nm = "spend" -> {Num(201), Garbage}
       [] nm = "clicks" -> {Num(0), Num(1), Garbage}
       [] nm = "purchases" -> {Null, Garbage}
       [] OTHER -> GateCells[nm]]

\* rows with a bad date or without an identifier
GateKeyCells ==
  [nm \in DOMAIN KeyCells |->
     CASE nm = "date" -> {Date(1), Garbage}
       [] nm = "account_id" -> {Str(<<"a", "c", "t">>), Null}
       [] nm = "campaign_id" -> {Str(<<"c", "1">>), Null}
       [] OTHER -> GateCells[nm]]

\* raw is the first sheet of an uploaded file
IsGateTable(t) ==
  \E H \in GateHeaderSets, n \in 0..MaxGateRows :
    \E vals \in [1..n -> RowVals(H, GateSignCells) \cup RowVals(H, GateTextCells)
                         \cup RowVals(H, GateKeyCells)] :
      t = NewTable(H, vals)

\* validator = ExcelValidator(); validate_excel_file: errors = [], warnings = [], read_excel
GateInit ==
  /\ IsGateTable(raw)
  /\ pc = "start"
  /\ errors = <<>>
  /\ warnings = {}
  /\ result = NoResult
  /\ PipelineIdle /\ NamesIdle /\ AppIdle /\ PageIdle

\* if not self._validate_structure(df): return False, "; ".join(self.errors)
ValidateStructureStep ==
  /\ pc = "start"
  /\ LET o == ValidateStructure(raw)
     IN /\ errors' = errors \o o.errors
        /\ warnings' = warnings \cup o.warnings
        /\ IF o.ok THEN pc' = "structure" /\ result' = result
                   ELSE pc' = "done" /\ result' = Reject(errors')
  /\ UNCHANGED <<raw, df, kpis, dsum, csum, again, nameVars, appVars, pageVars>>

\* if not self._validate_columns(df): return False, "; ".join(self.errors)
ValidateColumnsStep ==
  /\ pc = "structure"
  /\ LET o == ValidateColumns(raw)
     IN /\ errors' = errors \o o.errors
        /\ warnings' = warnings \cup o.warnings
        /\ IF o.ok THEN pc' = "columns" /\ result' = result
                   ELSE pc' = "done" /\ result' = Reject(errors')
  /\ UNCHANGED <<raw, df, kpis, dsum, csum, again, nameVars, appVars, pageVars>>

\* if not self._validate_data_content(df): return False, "; ".join(self.errors)
ValidateDataContentStep ==
  /\ pc = "columns"
  /\ LET o == ValidateDataContent(raw)
     IN /\ errors' = errors \o o.errors
        /\ warnings' = warnings \cup o.warnings
        /\ IF o.ok THEN pc' = "content" /\ result' = result
                   ELSE pc' = "done" /\ result' = Reject(errors')
  /\ UNCHANGED <<raw, df, kpis, dsum, csum, again, nameVars, appVars, pageVars>>

\* self._check_warnings(df); return True, message -- or the except clause
CheckWarningsStep ==
  /\ pc = "content"
  /\ LET o == CheckWarnings(raw)
     IN /\ errors' = errors \o o.errors
        /\ warnings' = warnings \cup o.warnings
        /\ result' = IF o.raises THEN ReadError ELSE Accept(warnings')
  /\ pc' = "done"
  /\ UNCHANGED <<raw, df, kpis, dsum, csum, again, nameVars, appVars, pageVars>>

GateNext ==
  \/ ValidateStructureStep
  \/ ValidateColumnsStep
  \/ ValidateDataContentStep
  \/ CheckWarningsStep

GateSpec == GateInit /\ [][GateNext]_vars

(* ------------------------- the application script ---------------------- *)

\* largest number of rows of the table one run of the script is given
MaxAppRows == 1

\* the header rows of the sheets a user uploads
AppHeaderSets == {HeadersApi, HeadersRequired, HeadersListed}

\* the cells of the tables of a run: spend and clicks may be negative
AppCells ==
  [nm \in DOMAIN KeyCells |->
     CASE nm = "spend" -> {Num(-1), Num(2)}
       [] nm = "clicks" -> {Num(-1), Num(1)}
       [] OTHER -> GateCells[nm]]

\* a row with a negative number of impressions
AppImpressionCells ==
  [nm \in DOMAIN KeyCells |->
     CASE nm = "impressions" -> {Num(-1)}
       [] OTHER -> GateCells[nm]]

\* the rows of the tables of a run under the header row H
AppRows(H) == RowVals(H, AppCells) \cup RowVals(H, AppImpressionCells)

\* t is the first sheet of an uploaded file
IsUploadedTable(t) ==
  \E H \in AppHeaderSets, n \in 1..MaxAppRows :
    \E vals \in [1..n -> AppRows(H)] : t = NewTable(H, DatedVals(H, vals))

\* t is pd.concat of the tables get_insights_data returned for the selected accounts
IsFetchedTable(t) ==
  \E n \in 1..MaxAppRows :
    \E vals \in [1..n -> AppRows(HeadersApi)] :
      t = NewTable(HeadersApi, DatedVals(HeadersApi, vals))

\* st.error(...) and st.warning(...) of a run: the text and the validator's answer it shows
Report(kind, r) == [kind |-> kind, result |-> r]

\* the positions at which no run is under way
RunOver == {"idle", "rejected", "failed", "done"}

\* the script starts with an empty session
AppInit ==
  /\ pc = "idle"
  /\ raw = NoTable
  /\ AppIdle
  /\ PipelineIdle /\ NamesIdle /\ GateIdle /\ PageIdle

\* a run with data_source "Upload Excel File" and a file in the uploader
UploadFileStep ==
  /\ pc \in RunOver
  /\ IsUploadedTable(raw')
  /\ source' = "upload"
  /\ calls' = <<>>
  /\ reported' = <<>>
  /\ result' = NoResult
  /\ pc' = "uploaded"
  /\ shown' = NoSession
  /\ UNCHANGED <<df, kpis, dsum, csum, again, nameVars, errors, warnings, session, pageVars>>

\* validate_excel_file with a rejection that resets the session
ValidateUploadStep_ForgetsSession ==
  /\ pc = "uploaded"
  /\ calls' = Append(calls, "validate_excel_file")
  /\ result' = validate_excel_file(raw)
  /\ IF result'.is_valid
     THEN pc' = "accepted" /\ reported' = reported /\ session' = session
     ELSE /\ pc' = "rejected"
          /\ reported' = Append(reported, Report("Validation failed", result'))
          /\ session' = NoSession
  /\ shown' = shown
  /\ UNCHANGED <<raw, df, kpis, dsum, csum, again, nameVars, errors, warnings, source, pageVars>>

\* is_valid, validation_message = validator.validate_excel_file(uploaded_file);
\* if not is_valid: st.error(...)
ValidateUploadStep ==
  /\ pc = "uploaded"
  /\ calls' = Append(calls, "validate_excel_file")
  /\ result' = validate_excel_file(raw)
  /\ IF result'.is_valid
     THEN pc' = "accepted" /\ reported' = reported
     ELSE /\ pc' = "rejected"
          /\ reported' = Append(reported, Report("Validation failed", result'))
  /\ shown' = shown
  /\ UNCHANGED <<raw, df, kpis, dsum, csum, again, nameVars, errors, warnings, source,
                 session, pageVars>>

\* a run with data_source "Meta Ads API": get_insights_data for every selected
\* account; the tables that are not empty are concatenated
FetchMetaDataStep ==
  /\ pc \in RunOver
  /\ source' = "meta"
  /\ calls' = <<"get_insights_data">>
  /\ reported' = <<>>
  /\ result' = NoResult
  /\ \/ IsFetchedTable(raw') /\ pc' = "fetched"
     \/ raw' = NoTable /\ pc' = "done"
  /\ shown' = NoSession
  /\ UNCHANGED <<df, kpis, dsum, csum, again, nameVars, errors, warnings, session, pageVars>>

\* processed_data = processor.clean_and_normalize(...);
\* st.session_state.processed_data = processed_data -- or the except clause of the run
CleanAndNormalizeStep ==
  /\ pc \in {"accepted", "fetched"}
  /\ calls' = Append(calls, "clean_and_normalize")
  /\ IF CleanAndNormalizeRaises(raw)
     THEN /\ pc' = "failed"
          /\ reported' = Append(reported, Report("Error", NoResult))
          /\ session' = session
     ELSE /\ pc' = "processed"
          /\ reported' = reported
          /\ session' = [session EXCEPT !.processed_data = CleanAndNormalize(raw)]
  /\ shown' = shown
  /\ UNCHANGED <<raw, df, kpis, dsum, csum, again, nameVars, gateVars, source, pageVars>>

\* kpis_data = calculator.calculate_all_kpis(processed_data);
\* st.session_state.kpis = kpis_data
CalculateKpisStep ==
  /\ pc = "processed"
  /\ calls' = Append(calls, "calculate_all_kpis")
  /\ IF CalculateAllKpisRaises(session.processed_data)
     THEN /\ pc' = "failed"
          /\ reported' = Append(reported, Report("Error", NoResult))
          /\ session' = session
     ELSE /\ pc' = "kpis"
          /\ reported' = reported
          /\ session' = [session EXCEPT !.kpis = calculate_all_kpis(session.processed_data)]
  /\ shown' = shown
  /\ UNCHANGED <<raw, df, kpis, dsum, csum, again, nameVars, gateVars, source, pageVars>>

\* if openai_api_key: GPTClient(...).generate_insights(kpis_data) gives the
\* model's text or the fallback text, or the constructor raises; else st.warning;
\* then the overview, the KPI table, the insights and the downloads are drawn
\* from st.session_state
GenerateInsightsStep ==
  /\ pc = "kpis"
  /\ \E openai_api_key \in BOOLEAN, outcome \in {"gpt", "fallback", "raise"} :
       IF ~openai_api_key
       THEN /\ pc' = "done"
            /\ calls' = calls
            /\ reported' = Append(reported, Report("Please provide OpenAI API key", NoResult))
            /\ session' = session
            /\ shown' = session
       ELSE /\ calls' = Append(calls, "generate_insights")
            /\ IF outcome = "raise"
               THEN /\ pc' = "failed"
                    /\ reported' = Append(reported, Report("Error", NoResult))
                    /\ session' = session
                    /\ shown' = shown
               ELSE /\ pc' = "done"
                    /\ reported' = reported
                    /\ session' = [session EXCEPT !.insights = outcome]
                    /\ shown' = session'
  /\ UNCHANGED <<raw, df, kpis, dsum, csum, again, nameVars, gateVars, source, pageVars>>

AppNext ==
  \/ UploadFileStep
  \/ ValidateUploadStep
  \/ FetchMetaDataStep
  \/ CleanAndNormalizeStep
  \/ CalculateKpisStep
  \/ GenerateInsightsStep

AppSpec == AppInit /\ [][AppNext]_vars

(* ------------------ MetaAdsClient.get_insights_data -------------------- *)

\* number of addresses the remote source answers
MaxPages == 2

\* largest number of objects in the data of one response
MaxObjects == 2

\* largest number of requests of one call that are followed
MaxRequests == 3

\* the answer to one request: a page (status 200 with 'data', next is the
\* address in paging.next or 0 when there is none), a body without 'data', a
\* status other than 200, or an exception raised by requests.get or json();
\* a malformed answer is a page whose objects carry a date_start that is no date
Response(kind, count, next) == [kind |-> kind, count |-> count, next |-> next]

\* the answers a source can give; only a page carries data and a cursor
Responses ==
  {Response(kind, 0, 0) : kind \in {"no_data", "error", "raise"}}
  \cup {Response("page", count, next) : count \in 0..MaxObjects, next \in 0..MaxPages}

\* data['data'] of the page at address u with count objects
Objects(u, count) == [i \in 1..count |-> <<u, i>>]

\* all_data.extend(objs) at the front of the list
Extend_Front(all, objs) == objs \o all

\* all_data.extend(objs)
Extend(all, objs) == all \o objs

\* url = f"{base_url}/{account_id}/insights"; all_data = []
PageInit ==
  /\ pages \in [1..MaxPages -> Responses]
  /\ url = 1
  /\ requests = <<>>
  /\ all_data = <<>>
  /\ pc = "fetching"
  /\ raw = NoTable
  /\ PipelineIdle /\ NamesIdle /\ GateIdle /\ AppIdle /\ FetchIdle /\ ClientIdle

\* one turn of "while True": requests.get(url), then break or follow paging.next
RequestPageStep ==
  /\ pc = "fetching"
  /\ Len(requests) < MaxRequests
  /\ requests' = Append(requests, url)
  /\ LET response == pages[url]
     IN CASE response.kind = "raise" ->
               pc' = "raised" /\ all_data' = all_data /\ url' = url
          [] response.kind \in {"error", "no_data"} ->
               pc' = "fetched" /\ all_data' = all_data /\ url' = url
          [] response.kind \in {"page", "malformed"} ->
               /\ all_data' = Extend(all_data, Objects(url, response.count))
               /\ IF response.next # 0
                  THEN url' = response.next /\ pc' = "fetching"
                  ELSE url' = url /\ pc' = "fetched"
  /\ UNCHANGED <<raw, df, kpis, dsum, csum, again, nameVars, gateVars, appVars, pages,
                 fetchVars, clientVars>>

\* the hand-over that returns nothing once a request was answered with an error
HandOverStep_DropsAfterError ==
  /\ pc = "fetched"
  /\ pc' = IF all_data = <<>> \/ pages[requests[Len(requests)]].kind = "error"
           THEN "returned_empty" ELSE "processing"
  /\ UNCHANGED <<raw, df, kpis, dsum, csum, again, nameVars, gateVars, appVars, pageVars>>

\* if not all_data: return pd.DataFrame(); else df = pd.DataFrame(all_data) is
\* handed to _process_insights_data
HandOverStep ==
  /\ pc = "fetched"
  /\ pc' = IF all_data = <<>> THEN "returned_empty" ELSE "processing"
  /\ UNCHANGED <<raw, df, kpis, dsum, csum, again, nameVars, gateVars, appVars, pageVars>>

\* some object of objs is of a malformed page: pd.to_datetime raises on it
Malformed(objs) == \E i \in 1..Len(objs) : pages[objs[i][1]].kind = "malformed"

\* df = self._process_insights_data(df); return df: one row for each object;
\* an exception is caught and pd.DataFrame() is returned in place of the rows
ProcessInsightsStep ==
  /\ pc = "processing"
  /\ pc' = IF Malformed(all_data) THEN "raised" ELSE "returned"
  /\ UNCHANGED <<raw, df, kpis, dsum, csum, again, nameVars, gateVars, appVars, pageVars>>

PageNext ==
  \/ RequestPageStep
  \/ HandOverStep
  \/ ProcessInsightsStep

PageSpec == PageInit /\ [][PageNext]_vars

\* the call is one sequential computation: a step that can be taken is taken
PageFairSpec == PageSpec /\ WF_vars(PageNext)

(* ------------------- main: the fetch loop over accounts ---------------- *)

\* largest number of selected ad accounts
MaxAccounts == 2

\* the answers of the source of one account at address p: a failure, a last
\* page, or a page whose cursor is the next address
AccountResponses(p) ==
  {Response("error", 0, 0), Response("raise", 0, 0),
   Response("malformed", 1, 0), Response("page", 1, 0)}
  \cup (IF p < MaxPages THEN {Response("page", 1, p + 1)} ELSE {})

\* the sources of an account; an address no cursor leads to answers with an error
AccountServers ==
  {s \in [1..MaxPages -> UNION {AccountResponses(p) : p \in 1..MaxPages}] :
     \A p \in 1..MaxPages :
       /\ s[p] \in AccountResponses(p)
       /\ (\E q \in 1..(p - 1) : s[q].next # q + 1) => s[p] = Response("error", 0, 0)}

\* the rows of the frame returned for account a
AccountData(a, objs) == [i \in 1..Len(objs) |-> <<a, objs[i][1], objs[i][2]>>]

\* pd.concat(all_data, ignore_index=True) with the frames in reverse order
RECURSIVE Concat_Reversed(_)
Concat_Reversed(fs) == IF fs = <<>> THEN <<>> ELSE Concat_Reversed(Tail(fs)) \o Head(fs)

\* pd.concat(all_data, ignore_index=True)
RECURSIVE Concat(_)
Concat(fs) == IF fs = <<>> THEN <<>> ELSE Head(fs) \o Concat(Tail(fs))

\* the button is pressed with one account or more selected: all_data = [] and
\* the first get_insights_data begins
AccountsInit ==
  /\ \E n \in 1..MaxAccounts : accounts \in [1..n -> AccountServers]
  /\ acct = 1
  /\ pages = accounts[1]
  /\ url = 1
  /\ requests = <<>>
  /\ all_data = <<>>
  /\ frames = <<>>
  /\ combined_data = <<>>
  /\ pc = "fetching"
  /\ raw = NoTable
  /\ PipelineIdle /\ NamesIdle /\ GateIdle /\ AppIdle /\ ClientIdle

\* get_insights_data has returned account_data: if not account_data.empty:
\* all_data.append(account_data); then the next account, or after the last
\* one: if all_data: combined_data = pd.concat(all_data, ignore_index=True)
NextAccountStep ==
  /\ pc \in {"returned", "returned_empty", "raised"}
  /\ acct \in 1..Len(accounts)
  /\ LET account_data == IF pc = "returned" THEN AccountData(acct, all_data) ELSE <<>>
         appended == IF account_data # <<>> THEN Append(frames, account_data) ELSE frames
     IN /\ frames' = appended
        /\ IF acct < Len(accounts)
           THEN /\ acct' = acct + 1
                /\ pages' = accounts[acct + 1]
                /\ url' = 1
                /\ requests' = <<>>
                /\ all_data' = <<>>
                /\ combined_data' = combined_data
                /\ pc' = "fetching"
           ELSE /\ combined_data' = Concat(appended)
                /\ pc' = IF appended # <<>> THEN "combined" ELSE "no_data"
                /\ UNCHANGED <<acct, pages, url, requests, all_data>>
  /\ UNCHANGED <<raw, df, kpis, dsum, csum, again, nameVars, gateVars, appVars,
                 accounts, clientVars>>

AccountsNext ==
  \/ RequestPageStep
  \/ HandOverStep
  \/ ProcessInsightsStep
  \/ NextAccountStep

AccountsSpec == AccountsInit /\ [][AccountsNext]_vars

(* ------------ MetaAdsClient.validate_token_and_permissions ------------- *)

\* required_permissions = ['ads_read', 'read_insights']
required_permissions == <<"ads_read", "read_insights">>

\* the answer to GET /me: "ok" is status 200 with the user object (name "" when
\* the object has no name), "denied" a status other than 200 with its text,
\* "raise" an exception of requests.get (timeout, connection error)
IdentityAnswers ==
  {[kind |-> "ok", name |-> n, text |-> ""] : n \in {"", "Ann"}}
  \cup {[kind |-> "denied", name |-> "", text |-> "expired"],
        [kind |-> "raise", name |-> "", text |-> "timeout"]}

\* the entries of 'data' in the answer to GET /me/permissions
PermissionEntries ==
  {[permission |-> p, status |-> st] :
     p \in {"ads_read", "read_insights", "email"}, st \in {"granted", "declined"}}

\* the answer to GET /me/permissions: status 200 with 'data', status 200
\* without 'data', a status other than 200, or an exception of requests.get
PermissionAnswers ==
  {[kind |-> "ok", data |-> d, text |-> ""] : d \in SUBSET PermissionEntries}
  \cup {[kind |-> k, data |-> {}, text |-> "timeout"] : k \in {"no_data", "denied", "raise"}}

\* the return value (is_valid, message); the message is its fixed text and
\* the values formatted into it
Verdict(ok, text, args) == [is_valid |-> ok, text |-> text, args |-> args]

\* granted_permissions with the test of the status left out
GrantedPermissions_AnyStatus(answer) ==
  {e.permission : e \in answer.data}

\* granted_permissions = [perm['permission'] for perm in
\* permissions_data.get('data', []) if perm.get('status') == 'granted']
GrantedPermissions(answer) ==
  {e.permission : e \in {x \in answer.data : x.status = "granted"}}

\* missing_permissions = [perm for perm in required_permissions
\*                        if perm not in granted_permissions]
MissingPermissions(answer) ==
  SelectSeq(required_permissions, LAMBDA perm : perm \notin GrantedPermissions(answer))

\* validate_token_and_permissions for a token that the source answers with t
validate_token_and_permissions(t) ==
  IF t.me.kind = "raise" THEN Verdict(FALSE, "Error validating token", <<t.me.text>>)
  ELSE IF t.me.kind # "ok" THEN Verdict(FALSE, "Invalid token", <<t.me.text>>)
  ELSE IF t.permissions.kind = "raise"
       THEN Verdict(FALSE, "Error validating token", <<t.permissions.text>>)
  ELSE IF t.permissions.kind = "denied" THEN Verdict(FALSE, "Cannot verify permissions", <<>>)
  ELSE IF MissingPermissions(t.permissions) # <<>>
       THEN Verdict(FALSE, "Missing required permissions", MissingPermissions(t.permissions))
  ELSE Verdict(TRUE, "Token valid for user",
               <<IF t.me.name = "" THEN "Unknown" ELSE t.me.name>>)

\* a client is constructed with an access token
TokenInit ==
  /\ token \in [me : IdentityAnswers, permissions : PermissionAnswers]
  /\ verdict = <<>>
  /\ actions_data = <<>>
  /\ extracted = <<>>
  /\ pc = "validating"
  /\ raw = NoTable
  /\ pages = <<>> /\ url = 0 /\ requests = <<>> /\ all_data = <<>>
  /\ PipelineIdle /\ NamesIdle /\ GateIdle /\ AppIdle /\ FetchIdle

\* is_valid, message = meta_client.validate_token_and_permissions()
ValidateTokenStep ==
  /\ pc = "validating"
  /\ verdict' = validate_token_and_permissions(token)
  /\ pc' = "validated"
  /\ UNCHANGED <<raw, df, kpis, dsum, csum, again, nameVars, gateVars, appVars,
                 pages, url, requests, all_data, fetchVars, token, actions_data, extracted>>

TokenNext == ValidateTokenStep

TokenSpec == TokenInit /\ [][TokenNext]_vars

(* ------ DataProcessor._validate_data_consistency and the KPIs after ---- *)

\* the columns of a table that has passed the stages before the repair, with
\* and without the conversion columns
RepairHeaderSets ==
  {{Col(nm) : nm \in {"campaign_name", "date", "spend", "impressions", "clicks"} \cup opt} :
     opt \in {{}, {"purchases", "revenue"}}}

\* typed cells: clicks above and below impressions or missing, spend of either
\* sign, revenue with and without purchases
RepairCells ==
  [nm \in DOMAIN KeyCells |->
     CASE nm = "campaign_name" -> {Str(<<"A", " ", "b">>)}
       [] nm = "spend" -> {Num(50), Num(0 - 5)}
       [] nm = "impressions" -> {Num(100)}
       [] nm = "clicks" -> {Num(120), Num(80), Null}
       [] nm = "purchases" -> {Num(0), Num(2)}
       [] nm = "revenue" -> {Num(500), Num(0)}
       [] OTHER -> KeyCells[nm]]

\* _validate_data_consistency is about to be called on processed_df
RepairInit ==
  /\ \E H \in RepairHeaderSets, n \in 1..MaxRows :
       \E vals \in [1..n -> RowVals(H, RepairCells)] : raw = NewTable(H, DatedVals(H, vals))
  /\ df = raw
  /\ pc = "deduplicated"
  /\ kpis = NoTable
  /\ dsum = NoTable
  /\ csum = NoTable
  /\ again = NoTable
  /\ NamesIdle /\ GateIdle /\ AppIdle /\ PageIdle

RepairNext ==
  \/ ValidateDataConsistencyStep
  \/ GenerateMissingFieldsStep
  \/ SortAndReturnStep
  \/ CalculateAllKpisStep

RepairSpec == RepairInit /\ [][RepairNext]_vars

(* ------------- clean_and_normalize on tables without ids --------------- *)

\* largest number of rows of a table whose identifiers are synthesized
MaxSynthRows == 3

\* an export without campaign_id and ad_id, and a campaign-level table
\* with campaign_id and without ad_id
SynthHeaderSets == {HeadersExport, HeadersCampaign}

\* raw cells: two campaign names with the same lower-case form, two days and
\* a date that cannot be parsed
SynthCells ==
  [nm \in DOMAIN KeyCells |->
     CASE nm = "campaign_name" -> {Str(<<"A", " ", "b">>), Str(<<"a", "_", "b">>)}
       [] nm = "date" -> {Date(1), Date(2), Garbage}
       [] nm = "campaign_id" -> {Str(<<"c", "1">>)}
       [] nm = "purchases" -> {Num(1)}
       [] nm = "revenue" -> {Num(5)}
       [] OTHER -> KeyCells[nm]]

\* clean_and_normalize is called with a raw table; processed_df = df.copy()
SynthInit ==
  /\ \E H \in SynthHeaderSets, n \in 1..MaxSynthRows :
       \E vals \in [1..n -> RowVals(H, SynthCells)] : raw = NewTable(H, vals)
  /\ df = raw
  /\ pc = "start"
  /\ kpis = NoTable
  /\ dsum = NoTable
  /\ csum = NoTable
  /\ again = NoTable
  /\ NamesIdle /\ GateIdle /\ AppIdle /\ PageIdle

SynthSpec == SynthInit /\ [][Next]_vars

(* ---------------- MetaAdsClient._extract_action_value ------------------ *)

\* largest number of entries of an actions list
MaxActions == 2

\* a key that an object does not have
Absent == [k |-> "absent", n |-> 0, d |-> 1, s |-> <<>>]

\* the entries of an actions list: an object with or without 'action_type'
\* and 'value' (a number, a numeric text, other text, null), or an element
\* that is no object
ActionEntries ==
  {[kind |-> "dict", action_type |-> t, value |-> v] :
     t \in {"purchase", "link_click", "absent"},
     v \in {Num(7), Str(<<"3">>), Str(<<"x">>), Null, Absent}}
  \cup {[kind |-> "text", action_type |-> "absent", value |-> Absent]}

\* the lists of at most MaxActions entries
ActionLists == UNION {[1..n -> ActionEntries] : n \in 0..MaxActions}

\* what a cell of the actions column holds: a value (form "object") or JSON
\* text (form "str") of kind list, dict or none (None, null); text that is no
\* JSON is of kind invalid
ActionInputs ==
  {[form |-> f, kind |-> "list", items |-> l] : f \in {"object", "str"}, l \in ActionLists}
  \cup {[form |-> f, kind |-> k, items |-> <<>>] :
          f \in {"object", "str"}, k \in {"dict", "none"}}
  \cup {[form |-> "str", kind |-> "invalid", items |-> <<>>]}

\* the integer a text of decimal digits denotes
RECURSIVE DigitsValue(_)
DigitsValue(t) ==
  IF t = <<>> THEN 0 ELSE 10 * DigitsValue(SubSeq(t, 1, Len(t) - 1)) + (Ord(t[Len(t)]) - 48)

\* t is a non-empty text of decimal digits
IsDigits(t) == t # <<>> /\ \A i \in 1..Len(t) : Ord(t[i]) >= 48 /\ Ord(t[i]) <= 57

\* a value returned, or the exception that leaves the function
Returns(v) == [raised |-> "", value |-> v]
Raises(e) == [raised |-> e, value |-> Null]

\* float(action.get('value', 0)): ValueError for text that is no number,
\* TypeError for None
Float(v) ==
  CASE v.k = "absent" -> Returns(Num(0))
    [] v.k = "num" -> Returns(v)
    [] v.k = "str" -> IF IsDigits(v.s) THEN Returns(Num(DigitsValue(v.s)))
                      ELSE Raises("ValueError")
    [] OTHER -> Raises("TypeError")

\* for action in actions: if action.get('action_type') == action_type:
\* return float(action.get('value', 0)); after the loop return 0.  An element
\* without a get method raises AttributeError
RECURSIVE ForActions(_, _)
ForActions(actions, action_type) ==
  IF actions = <<>> THEN Returns(Num(0))
  ELSE LET action == Head(actions)
       IN IF action.kind # "dict" THEN Raises("AttributeError")
          ELSE IF action.action_type = action_type THEN Float(action.value)
          ELSE ForActions(Tail(actions), action_type)

\* MetaAdsClient._extract_action_value: json.loads for text, 0 for what is no
\* list, the loop; except (json.JSONDecodeError, TypeError, ValueError): return 0
extract_action_value(data, action_type) ==
  LET body == IF data.kind = "invalid" THEN Raises("JSONDecodeError")
              ELSE IF data.kind # "list" THEN Returns(Num(0))
              ELSE ForActions(data.items, action_type)
  IN IF body.raised \in {"JSONDecodeError", "TypeError", "ValueError"}
     THEN Returns(Num(0)) ELSE body

\* _process_insights_data applies the function to a cell of the actions column
ActionInit ==
  /\ actions_data \in ActionInputs
  /\ extracted = <<>>
  /\ token = <<>>
  /\ verdict = <<>>
  /\ pc = "extracting"
  /\ raw = NoTable
  /\ pages = <<>> /\ url = 0 /\ requests = <<>> /\ all_data = <<>>
  /\ PipelineIdle /\ NamesIdle /\ GateIdle /\ AppIdle /\ FetchIdle

\* self._extract_action_value(x, 'purchase')
ExtractActionValueStep ==
  /\ pc = "extracting"
  /\ extracted' = extract_action_value(actions_data, "purchase")
  /\ pc' = IF extracted'.raised = "" THEN "extracted" ELSE "extract_raised"
  /\ UNCHANGED <<raw, df, kpis, dsum, csum, again, nameVars, gateVars, appVars,
                 pages, url, requests, all_data, fetchVars, token, verdict, actions_data>>

ActionNext == ExtractActionValueStep

ActionSpec == ActionInit /\ [][ActionNext]_vars

(* ------------------------------ properties ----------------------------- *)

\* a <= b on numeric cells; a comparison with NaN is False
Le(a, b) == a.k = "num" /\ b.k = "num" /\ a.n * b.d <= b.n * a.d

\* the raw cell of a row of the input table, by the canonical name of its column
RawCell(r, nm) == r.val[CHOOSE h \in raw.cols : Canon(h) = nm]

\* the input table carries a column that is renamed to nm
RawHas(nm) == \E h \in raw.cols : Canon(h) = nm

Rows(t) == {t.rows[i] : i \in 1..Len(t.rows)}

\* C1: every row of the table clean_and_normalize returns for an input with
\* spend, impressions and clicks columns has clicks <= impressions and spend >= 0.
C1_ClicksAndSpendRepaired ==
  (pc = "returned" /\ RawHas("spend") /\ RawHas("impressions") /\ RawHas("clicks"))
    => \A r \in Rows(df) :
         /\ Le(Cell(r, "clicks"), Cell(r, "impressions"))
         /\ Le(Num(0), Cell(r, "spend"))

\* a returned table that kept a row whose raw spend was negative and whose raw
\* clicks exceeded its impressions, and a row whose raw clicks were no number
C1_Witness ==
  /\ pc = "returned"
  /\ Len(df.rows) = 2
  /\ \E r \in Rows(raw) : /\ RawCell(r, "spend") = Num(-1)
                          /\ RawCell(r, "clicks") = Num(3)
                          /\ RawCell(r, "impressions") = Num(2)
  /\ \E r \in Rows(raw) : RawCell(r, "clicks") = Garbage

\* C2: every row of the returned table has revenue > 0 => purchases >= 1.
C2_RevenueImpliesPurchase ==
  pc = "returned"
    => \A r \in Rows(df) :
         Gt(Cell(r, "revenue"), Num(0)) => Le(Num(1), Cell(r, "purchases"))

\* the natural key of the rows of a returned table
NaturalKey == {"account_id", "campaign_id", "date"}
                \cup (IF RawHas("ad_id") THEN {"ad_id"} ELSE {})

\* C3: no two rows of the returned table share (account_id, campaign_id, date),
\* extended by ad_id when the source carried an ad_id column.
C3_NaturalKeyUnique ==
  pc = "returned"
    => \A i, j \in 1..Len(df.rows) :
         (\A nm \in NaturalKey : Cell(df.rows[i], nm) = Cell(df.rows[j], nm)) => i = j

\* the rows of t that are the first with their (account_id, campaign_id, date[, ad_id])
FirstByNaturalKey(t) ==
  LET key == {"account_id", "campaign_id", "date"}
               \cup (IF Has(t, "ad_id") THEN {"ad_id"} ELSE {})
  IN SelectSeq(t.rows,
               LAMBDA r : \A q \in Rows(t) :
                            (\A nm \in key : Cell(q, nm) = Cell(r, nm)) => q.idx >= r.idx)

\* C4: _remove_duplicates returns exactly the rows that are the first occurrence
\* of their natural key (account_id, campaign_id, date, plus ad_id when present).
C4_KeepsFirstOfNaturalKey ==
  [][(RemoveDuplicatesStep /\ Has(df, "account_id") /\ Has(df, "campaign_id")
        /\ pc' = "deduplicated")
       => df'.rows = FirstByNaturalKey(df)]_vars

\* C5: every row of the returned table has a non-null campaign_id and a date;
\* no more rows are returned than the input had rows with a parseable date.
C5_CampaignIdAndDatePresent ==
  pc = "returned"
    => /\ Has(df, "campaign_id") /\ Has(df, "date")
       /\ \A r \in Rows(df) : ~IsNull(Cell(r, "campaign_id")) /\ Cell(r, "date").k = "date"
       /\ Len(df.rows) <= Cardinality({r \in Rows(raw) : RawCell(r, "date").k = "date"})

\* a returned table with a synthesized campaign_id whose input had a row with an
\* unparseable date next to a row that was kept
C5_Witness ==
  /\ pc = "returned"
  /\ ~RawHas("campaign_id")
  /\ \E r \in Rows(raw) : RawCell(r, "date") = Garbage
  /\ Len(df.rows) = 1
  /\ Len(raw.rows) = 2

\* C6: every row of the returned table has purchases, revenue, impressions and
\* clicks >= 0.
C6_MetricsNonNegative ==
  pc = "returned"
    => \A r \in Rows(df) :
         \A nm \in {"purchases", "revenue", "impressions", "clicks"} :
           Le(Num(0), Cell(r, nm))

\* the KPI columns the table of section 4.8 prescribes for a table with columns cols
ExpectedKpiColumns(cols) ==
  {Col(nm) : nm \in {"cpc", "cpm", "ctr", "frequency", "cost_per_impression"}}
  \cup (IF Col("purchases") \in cols
        THEN {Col(nm) : nm \in {"cpa", "cvr", "purchase_rate"}} ELSE {})
  \cup (IF Col("revenue") \in cols
        THEN {Col(nm) : nm \in {"roas", "revenue_per_impression", "revenue_per_click"}}
        ELSE {})
  \cup (IF Col("purchases") \in cols /\ Col("revenue") \in cols THEN {Col("aov")} ELSE {})

\* c is num/den when den > 0 and 0 otherwise
IsQuotient(c, num, den) ==
  /\ c.k = "num" /\ num.k = "num" /\ den.k = "num"
  /\ IF den.n > 0 THEN c.n * den.n * num.d = num.n * den.d * c.d ELSE c.n = 0

\* c is scale * num/den when den > 0 and 0 otherwise
IsScaledQuotient(c, scale, num, den) ==
  /\ c.k = "num" /\ num.k = "num" /\ den.k = "num"
  /\ IF den.n > 0 THEN c.n * den.n * num.d = scale * num.n * den.d * c.d ELSE c.n = 0

\* the KPI cells of row k are the formulas of section 4.8 applied to the base row b
KpiRowOk(k, b, cols) ==
  /\ IsQuotient(Cell(k, "cpc"), Cell(b, "spend"), Cell(b, "clicks"))
  /\ IsScaledQuotient(Cell(k, "cpm"), 1000, Cell(b, "spend"), Cell(b, "impressions"))
  /\ IsQuotient(Cell(k, "ctr"), Cell(b, "clicks"), Cell(b, "impressions"))
  /\ IsQuotient(Cell(k, "cost_per_impression"), Cell(b, "spend"), Cell(b, "impressions"))
  /\ IF Cell(b, "clicks").n > 0
     THEN IsQuotient(Cell(k, "frequency"), Cell(b, "impressions"), Cell(b, "clicks"))
     ELSE Cell(k, "frequency") = Cell(b, "impressions")
  /\ Col("purchases") \in cols =>
       /\ IsQuotient(Cell(k, "cpa"), Cell(b, "spend"), Cell(b, "purchases"))
       /\ IsQuotient(Cell(k, "cvr"), Cell(b, "purchases"), Cell(b, "clicks"))
       /\ IsQuotient(Cell(k, "purchase_rate"), Cell(b, "purchases"), Cell(b, "impressions"))
  /\ Col("revenue") \in cols =>
       /\ IsQuotient(Cell(k, "roas"), Cell(b, "revenue"), Cell(b, "spend"))
       /\ IsQuotient(Cell(k, "revenue_per_impression"), Cell(b, "revenue"),
                     Cell(b, "impressions"))
       /\ IsQuotient(Cell(k, "revenue_per_click"), Cell(b, "revenue"), Cell(b, "clicks"))
  /\ (Col("purchases") \in cols /\ Col("revenue") \in cols) =>
       IsQuotient(Cell(k, "aov"), Cell(b, "revenue"), Cell(b, "purchases"))

\* C7: calculate_all_kpis never faults and adds exactly the KPI columns whose
\* precondition holds, each value being numerator/denominator when the denominator
\* is > 0 and 0 otherwise (frequency: impressions when clicks = 0); impressions = 0
\* gives ctr = cpm = 0 and {spend 0, clicks 0, impressions 1000} gives
\* cpm = cpc = ctr = 0.
C7_KpiColumnsAndValues ==
  /\ pc # "kpis_raised"
  /\ pc = "kpis" =>
       /\ kpis.cols = df.cols \cup ExpectedKpiColumns(df.cols)
       /\ Len(kpis.rows) = Len(df.rows)
       /\ \A i \in 1..Len(kpis.rows) :
            LET k == kpis.rows[i]
                b == df.rows[i]
            IN /\ KpiRowOk(k, b, df.cols)
               /\ Cell(b, "impressions") = Num(0) =>
                    Cell(k, "ctr") = Num(0) /\ Cell(k, "cpm") = Num(0)
               /\ (Cell(b, "spend") = Num(0) /\ Cell(b, "clicks") = Num(0)
                     /\ Cell(b, "impressions") = Num(1000)) =>
                    /\ Cell(k, "cpm") = Num(0)
                    /\ Cell(k, "cpc") = Num(0)
                    /\ Cell(k, "ctr") = Num(0)

\* KPIs of a table with revenue but without purchases that has the row
\* {spend 0, clicks 0, impressions 1000} and a row with all denominators positive
C7_Witness ==
  /\ pc = "kpis"
  /\ Has(df, "revenue") /\ ~Has(df, "purchases")
  /\ \E r \in Rows(df) : /\ Cell(r, "spend") = Num(0)
                         /\ Cell(r, "clicks") = Num(0)
                         /\ Cell(r, "impressions") = Num(1000)
  /\ \E r \in Rows(kpis) : /\ Cell(r, "cpm") = Num(1500)
                           /\ Cell(r, "frequency") = Num(1)

\* the whole-number sum of column nm over the rows of t that have key in column by
RECURSIVE SumInt(_, _, _, _)
SumInt(rows, by, key, nm) ==
  IF rows = <<>> THEN 0
  ELSE (IF Cell(Head(rows), by) = key THEN Cell(Head(rows), nm).n ELSE 0)
         + SumInt(Tail(rows), by, key, nm)

\* the base columns a summary sums
SummedColumns(t) ==
  {"spend", "impressions", "clicks"}
  \cup (IF Has(t, "purchases") THEN {"purchases"} ELSE {})
  \cup (IF Has(t, "revenue") THEN {"revenue"} ELSE {})

\* C8: get_campaign_summary returns one row per campaign_id whose ctr is
\* sum(clicks)/sum(impressions) over the campaign's rows, 0 when no impressions.
C8_CampaignCtrFromSums ==
  pc \in {"campaign_summary", "campaign_summary_raised"} =>
    /\ pc = "campaign_summary"
    /\ \A r \in Rows(kpis) :
         Cardinality({q \in Rows(csum) : Cell(q, "campaign_id") = Cell(r, "campaign_id")}) = 1
    /\ \A q \in Rows(csum) :
         /\ \E r \in Rows(kpis) : Cell(r, "campaign_id") = Cell(q, "campaign_id")
         /\ Has(csum, "ctr")
         /\ IsQuotient(Cell(q, "ctr"),
                       Num(SumInt(kpis.rows, "campaign_id", Cell(q, "campaign_id"), "clicks")),
                       Num(SumInt(kpis.rows, "campaign_id", Cell(q, "campaign_id"),
                                  "impressions")))

\* C9: get_date_summary returns one row per distinct date holding the sums of the
\* base columns over the date's rows, the number of distinct campaigns of the date
\* as active_campaigns, and the KPI formulas applied to the sums.
C9_DateSummaryFromSums ==
  /\ pc # "date_summary_raised"
  /\ pc = "date_summary" =>
       /\ dsum.cols = {Col("date"), Col("active_campaigns")}
                        \cup {Col(nm) : nm \in SummedColumns(kpis)}
                        \cup ExpectedKpiColumns(kpis.cols)
       /\ \A r \in Rows(kpis) :
            Cardinality({q \in Rows(dsum) : Cell(q, "date") = Cell(r, "date")}) = 1
       /\ Len(dsum.rows) = Cardinality({Cell(r, "date") : r \in Rows(kpis)})
       /\ \A q \in Rows(dsum) :
            /\ \A nm \in SummedColumns(kpis) :
                 Cell(q, nm) = Num(SumInt(kpis.rows, "date", Cell(q, "date"), nm))
            /\ Cell(q, "active_campaigns") =
                 Num(Cardinality({Cell(r, "campaign_id") :
                                    r \in {x \in Rows(kpis) : Cell(x, "date") = Cell(q, "date")}}))
            /\ KpiRowOk(q, q, kpis.cols)

\* a date summary of two rows of one day and two campaigns whose per-row ctr
\* values (1 and 1/2) average to 3/4 while the ctr of the sums is 2/3
C9_Witness ==
  /\ pc = "date_summary"
  /\ Len(kpis.rows) = 2
  /\ Len(dsum.rows) = 1
  /\ Cell(kpis.rows[1], "ctr") = Num(1)
  /\ Cell(kpis.rows[2], "ctr") = Frac(1, 2)
  /\ Cell(dsum.rows[1], "ctr") = Frac(2, 3)
  /\ Cell(dsum.rows[1], "active_campaigns") = Num(2)

\* C10: clean_and_normalize applied to a table it returned gives that table again.
C10_Idempotent ==
  /\ pc # "reapply_raised"
  /\ pc = "reapplied" => again = df

\* C11: _normalize_column_names keeps every column in its position, gives each
\* the lower-cased trimmed text of its name, replaced by its synonym when the
\* table lists one and unchanged otherwise, and a second application returns
\* the names of the first.
C11_NormalizeNamesIdempotentLossless ==
  /\ pc \in {"once", "twice"} =>
       /\ Len(columns) = Len(header)
       /\ \A i \in 1..Len(header) :
            /\ ~columns[i].caps /\ ~columns[i].pad
            /\ columns[i].name = IF header[i].name \in DOMAIN column_mapping
                                  THEN column_mapping[header[i].name]
                                  ELSE header[i].name
  /\ pc = "twice" => columns = once

\* a padded capitalised synonym next to a name the table does not list, renamed twice
C11_Witness ==
  /\ pc = "twice"
  /\ \E i, j \in 1..Len(header) :
       /\ header[i] = Hdr("results", TRUE, TRUE) /\ columns[i] = Col("purchases")
       /\ header[j] = Hdr("ad name", TRUE, FALSE) /\ columns[j] = Col("ad name")

\* the uploaded sheet has a column whose lower-cased trimmed name is nm
SheetHas(nm) == \E h \in raw.cols : h.name = nm

\* the cell of a row of the uploaded sheet in that column
SheetCell(r, nm) == r.val[CHOOSE h \in raw.cols : h.name = nm]

\* some row of the uploaded sheet holds a negative number in column nm
SheetColumnNegative(nm) ==
  SheetHas(nm) /\ \E r \in Rows(raw) : SheetCell(r, nm).k = "num" /\ SheetCell(r, nm).n < 0

\* the text of the first of the six checks the uploaded sheet fails, "none" if it passes all
FirstFailingCheck ==
  CASE raw.rows = <<>> -> "Excel file is empty"
    [] raw.rows # <<>> /\ Cardinality(raw.cols) < 6 -> "Insufficient columns"
    [] OTHER ->
       IF \E nm \in {"account_id", "campaign_id", "date", "spend", "impressions", "clicks"} :
            ~SheetHas(nm)
       THEN "Missing required columns"
       ELSE IF \E nm \in {"spend", "impressions", "clicks"} : SheetColumnNegative(nm)
       THEN "Negative values found in column"
       ELSE IF \E r \in Rows(raw) : SheetCell(r, "date").k = "str"
       THEN "Date column contains invalid date formats"
       ELSE IF \E nm \in {"account_id", "campaign_id"} :
                 \E r \in Rows(raw) : IsNull(SheetCell(r, nm))
       THEN "column contains empty values"
       ELSE "none"

\* C12: when an uploaded sheet fails one of the checks (1) non-empty, (2) at
\* least 6 columns, (3) required columns present, (4) no negative spend,
\* impressions or clicks, (5) dates parse, (6) identifiers not empty, then
\* validate_excel_file returns reject and its reason is exactly the one entry
\* of the first check that fails in this order.
C12_FirstFailingCheckOnly ==
  (pc = "done" /\ FirstFailingCheck # "none") =>
    /\ ~result.is_valid
    /\ result.text = ""
    /\ Len(result.errors) = 1
    /\ result.errors[1].kind = FirstFailingCheck

\* a sheet that fails the checks (4), (5) and (6) at once and is rejected for (4) alone
C12_Witness ==
  /\ pc = "done"
  /\ FirstFailingCheck = "Negative values found in column"
  /\ \E r \in Rows(raw) : SheetCell(r, "date").k = "str"
  /\ \E r \in Rows(raw) : IsNull(SheetCell(r, "campaign_id"))
  /\ result.errors = <<Msg("Negative values found in column", <<"spend">>, 0)>>

\* C14: validate_excel_file rejects every uploaded sheet in which some row has
\* more clicks than impressions.
C14_ClicksOverImpressionsRejected ==
  ( /\ pc = "done"
    /\ SheetHas("clicks") /\ SheetHas("impressions")
    /\ \E r \in Rows(raw) : Gt(SheetCell(r, "clicks"), SheetCell(r, "impressions")) )
  => ~result.is_valid

\* the columns validate_excel_file treats as numeric
NumericSheetColumns == {"spend", "impressions", "clicks", "purchases", "revenue"}

\* C15: validate_excel_file accepts an uploaded sheet only if no cell of its
\* spend, impressions, clicks, purchases and revenue columns holds text that
\* is not a number.
C15_AcceptedOnlyIfNumeric ==
  (pc = "done" /\ result.is_valid) =>
    \A nm \in NumericSheetColumns :
      SheetHas(nm) => \A r \in Rows(raw) : SheetCell(r, nm).k \in {"num", "null"}

\* C18: a sheet whose header row is the five columns the application lists as
\* required, with well-formed rows, is accepted by validate_excel_file.
C18_ListedColumnsAccepted ==
  ( /\ pc = "done"
    /\ raw.cols = HeadersListed
    /\ raw.rows # <<>>
    /\ \A r \in Rows(raw) : \A h \in raw.cols : r.val[h] \in GateCells[Canon(h)] )
  => result.is_valid

\* the row of the session's processed table for the day of the row r of the run's table
ProcessedRowsOf(r) ==
  {p \in Rows(session.processed_data) : Cell(p, "date") = RawCell(r, "date")}

C16_RejectedRunLeavesSession ==
  [][ /\ pc' = "uploaded" => session' = session
      /\ pc' = "rejected" =>
           /\ session' = session
           /\ ~result'.is_valid
           /\ calls' = <<"validate_excel_file">>
           /\ reported' = <<Report("Validation failed", result')>>
      /\ pc = "rejected" =>
           /\ session' = session
           /\ \A i \in 1..Len(calls') :
                calls'[i] \notin {"clean_and_normalize", "calculate_all_kpis",
                                  "generate_insights"} ]_vars

\* a rejected upload in a session that holds the results of an earlier run
C16_Witness ==
  /\ pc = "rejected"
  /\ ~result.is_valid
  /\ session.processed_data # NoTable
  /\ session.kpis # NoTable
  /\ session.insights # "None"

\* C17: whenever a run has called clean_and_normalize, the call before it in
\* that run was validate_excel_file on the same table, and it accepted.
C17_GateBeforeNormalize ==
  \A i \in 1..Len(calls) :
    calls[i] = "clean_and_normalize"
    => /\ i > 1
       /\ calls[i - 1] = "validate_excel_file"
       /\ validate_excel_file(raw).is_valid

\* C19: after _handle_missing_values every input row with a date is still in
\* the table, and where its campaign_name was null it reads "Unknown".
C19_NullNameKeptAsUnknown ==
  (pc = "filled" /\ RawHas("date")) =>
    \A r \in Rows(raw) :
      RawCell(r, "date").k = "date"
      => \E p \in Rows(df) :
           /\ p.idx = r.idx
           /\ (RawHas("campaign_name") /\ IsNull(RawCell(r, "campaign_name")))
              => Cell(p, "campaign_name") = Unknown

\* the objects of the response to the i-th request of the call
FetchedObjects(i) ==
  IF pages[requests[i]].kind = "page"
  THEN Objects(requests[i], pages[requests[i]].count) ELSE <<>>

\* the objects of the responses to the first n requests, in the order of the requests
RECURSIVE FetchedUpTo(_)
FetchedUpTo(n) == IF n = 0 THEN <<>> ELSE FetchedUpTo(n - 1) \o FetchedObjects(n)

\* C20: the first request goes to the insights address and every later one to
\* the next cursor of the response before it; the loop has ended only at a
\* response without a next cursor; the rows handed to _process_insights_data
\* are the objects of the fetched pages, page after page in the order of the
\* requests, each page once per request.
C20_PagesFollowedInOrder ==
  /\ requests # <<>> => requests[1] = 1
  /\ \A i \in 2..Len(requests) :
       /\ pages[requests[i - 1]].kind = "page"
       /\ pages[requests[i - 1]].next = requests[i]
  /\ pc \in {"fetched", "processing", "returned_empty"} =>
       /\ requests # <<>>
       /\ pages[requests[Len(requests)]].next = 0
  /\ pc \in {"fetching", "fetched", "processing"} => all_data = FetchedUpTo(Len(requests))
  /\ pc = "processing" => all_data # <<>>

\* two pages, the second reached through the cursor of the first, handed over in order
C20_Witness ==
  /\ pc = "processing"
  /\ requests = <<1, 2>>
  /\ all_data = <<<<1, 1>>, <<1, 2>>, <<2, 1>>>>

\* the addresses one call requests from the source s, from address u on
RECURSIVE Trail(_, _, _)
Trail(s, u, n) ==
  IF n = 0 THEN <<>>
  ELSE IF s[u].kind \in {"page", "malformed"} /\ s[u].next # 0
       THEN <<u>> \o Trail(s, s[u].next, n - 1)
       ELSE <<u>>

\* the answers account a receives, in the order of its requests
Answers(a) ==
  LET t == Trail(accounts[a], 1, MaxRequests) IN [i \in 1..Len(t) |-> accounts[a][t[i]]]

\* the fetch of account a meets a failure: an answer other than 200, an
\* exception or a malformed payload
FetchFailed(a) == \E i \in 1..Len(Answers(a)) : Answers(a)[i].kind # "page"

\* the rows of the pages account a receives, page after page
RECURSIVE PageRows(_, _)
PageRows(a, n) ==
  IF n = 0 THEN <<>>
  ELSE LET u == Trail(accounts[a], 1, MaxRequests)[n]
       IN PageRows(a, n - 1) \o AccountData(a, Objects(u, accounts[a][u].count))

\* the rows of the accounts 1..n whose fetch met no failure, account after account
RECURSIVE RowsOfSucceeded(_)
RowsOfSucceeded(n) ==
  IF n = 0 THEN <<>>
  ELSE RowsOfSucceeded(n - 1)
       \o (IF FetchFailed(n) THEN <<>> ELSE PageRows(n, Len(Answers(n))))

\* C21 as stated: when the loop over the accounts has ended, the combined
\* table holds exactly the rows of the accounts whose fetch met no failure,
\* in account order.
C21_OnlySucceededAccounts ==
  pc \in {"combined", "no_data"} => combined_data = RowsOfSucceeded(Len(accounts))

\* the fetch of account a ends with an exception, in the loop or in the
\* processing of a malformed payload: its rows are discarded
FetchRaised(a) ==
  \E i \in 1..Len(Answers(a)) :
    \/ Answers(a)[i].kind = "raise"
    \/ Answers(a)[i].kind = "malformed" /\ Answers(a)[i].count > 0

\* the rows of the accounts 1..n that get_insights_data returns, account after account
RECURSIVE RowsReturned(_)
RowsReturned(n) ==
  IF n = 0 THEN <<>>
  ELSE RowsReturned(n - 1)
       \o (IF FetchRaised(n) THEN <<>> ELSE PageRows(n, Len(Answers(n))))

\* C21 amended: every selected account is fetched whatever happened to the
\* accounts before it, and the combined table holds, in account order, the
\* rows of every account whose fetch raised no exception: all its rows when
\* the fetch met no failure, the rows of the pages received before a status
\* other than 200 otherwise; an account whose fetch raised contributes none.
C21_FailuresIsolated ==
  /\ acct \in 1..Len(accounts)
  /\ pc \in {"combined", "no_data"} =>
       /\ acct = Len(accounts)
       /\ combined_data = RowsReturned(Len(accounts))
       /\ (pc = "no_data") = (combined_data = <<>>)

\* the first account raises, the second is fetched and its row is the combined table
C21_Witness ==
  /\ pc = "combined"
  /\ Len(accounts) = 2
  /\ accounts[1][1].kind = "raise"
  /\ combined_data = <<<<2, 1, 1>>>>

\* C22: validate_token_and_permissions returns valid exactly when GET /me and
\* GET /me/permissions both answer 200 and ads_read and read_insights are both
\* granted; it returns, it does not raise; a token that is refused or lacks a
\* required scope gets a reason other than the reason of a network failure;
\* the missing-scope reason lists exactly the required scopes not granted.
C22_TokenVerdict ==
  pc = "validated" =>
    LET granted == {e.permission : e \in {x \in token.permissions.data : x.status = "granted"}}
        both200 == token.me.kind = "ok" /\ token.permissions.kind \in {"ok", "no_data"}
        network == \/ token.me.kind = "raise"
                   \/ token.me.kind = "ok" /\ token.permissions.kind = "raise"
    IN /\ verdict \in [is_valid : BOOLEAN, text : STRING, args : Seq(STRING)]
       /\ verdict.is_valid = (both200 /\ {"ads_read", "read_insights"} \subseteq granted)
       /\ network = (verdict.text = "Error validating token")
       /\ token.me.kind = "denied" => verdict.text = "Invalid token"
       /\ (both200 /\ ~({"ads_read", "read_insights"} \subseteq granted)) =>
            /\ verdict.text = "Missing required permissions"
            /\ {verdict.args[i] : i \in 1..Len(verdict.args)}
                 = {"ads_read", "read_insights"} \ granted
            /\ Len(verdict.args) = Cardinality({"ads_read", "read_insights"} \ granted)

\* ads_read is granted and read_insights declined: the reason names read_insights only
C22_Witness ==
  /\ pc = "validated"
  /\ token.me.kind = "ok"
  /\ token.permissions.data =
       {[permission |-> "ads_read", status |-> "granted"],
        [permission |-> "read_insights", status |-> "declined"]}
  /\ verdict = Verdict(FALSE, "Missing required permissions", <<"read_insights">>)

\* the run has called fn
Called(fn) == \E i \in 1..Len(calls) : calls[i] = fn

\* C23: once the KPI table of a run is computed, a failure of the insight
\* client, in its construction or in its call, is not fatal: the run goes on
\* to its end with the fallback text (or the model's text) as its insights,
\* and the KPI table is presented.
C23_InsightFailureNotFatal ==
  (Called("generate_insights") /\ pc \in RunOver) =>
    /\ pc = "done"
    /\ session.insights \in {"gpt", "fallback"}
    /\ shown.insights = session.insights
    /\ shown.kpis = session.kpis

\* C24: what a run presents comes from that run: the insights it shows were
\* generated in it, and the KPI table it shows or exports was computed in it
\* from the processed table of the run.
C24_NothingCrossesRuns ==
  pc = "done" =>
    /\ shown.insights # "None" => Called("generate_insights")
    /\ shown.kpis # NoTable =>
         /\ Called("calculate_all_kpis")
         /\ shown.kpis = calculate_all_kpis(shown.processed_data)

\* C25: calculate_all_kpis only adds columns: the table it returns has every
\* column of its input with every value unchanged, also a frequency column
\* that came from the source, and the input table is the same after the call.
C25_KpisOnlyAddColumns ==
  [][(pc = "returned" /\ pc' = "kpis") =>
       /\ df' = df
       /\ df.cols \subseteq kpis'.cols
       /\ Len(kpis'.rows) = Len(df.rows)
       /\ \A i \in 1..Len(df.rows) :
            \A c \in df.cols : kpis'.rows[i].val[c] = df.rows[i].val[c]]_vars

\* the cell _validate_data_consistency is to leave in column c of row r
Repaired(t, r, c) ==
  IF c = Col("clicks") /\ Has(t, "impressions") /\ Gt(Cell(r, "clicks"), Cell(r, "impressions"))
  THEN Cell(r, "impressions")
  ELSE IF c = Col("spend") /\ Lt(Cell(r, "spend"), Num(0)) THEN Num(0)
  ELSE IF c = Col("purchases") /\ Has(t, "revenue")
          /\ Gt(Cell(r, "revenue"), Num(0)) /\ Cell(r, "purchases") = Num(0)
       THEN Num(1)
  ELSE r.val[c]

\* the row of table t for the day of row r
SameDay(t, r) == CHOOSE k \in Rows(t) : Cell(k, "date") = Cell(r, "date")

\* C26: _validate_data_consistency sets clicks to impressions where clicks >
\* impressions, spend to 0 where spend < 0 and purchases to 1 where revenue > 0
\* and purchases = 0; it changes no other cell and adds or removes no row.
\* With the KPIs computed afterwards, {clicks 120, impressions 100, spend 50}
\* gives clicks 100, ctr 1, cpc 1/2 and {revenue 500, purchases 0} gives
\* purchases 1, aov 500.
C26_RepairFrameAndScenarios ==
  [][/\ (pc = "deduplicated" /\ pc' = "validated") =>
          /\ df'.cols = df.cols
          /\ Len(df'.rows) = Len(df.rows)
          /\ \A i \in 1..Len(df.rows) :
               /\ df'.rows[i].idx = df.rows[i].idx
               /\ \A c \in df.cols : df'.rows[i].val[c] = Repaired(df, df.rows[i], c)
     /\ (pc = "returned" /\ pc' = "kpis") =>
          \A r \in Rows(raw) :
            LET k == SameDay(kpis', r)
            IN /\ (Cell(r, "clicks") = Num(120) /\ Cell(r, "impressions") = Num(100)
                     /\ Cell(r, "spend") = Num(50)) =>
                    /\ Cell(k, "clicks") = Num(100)
                    /\ Cell(k, "ctr") = Num(1)
                    /\ Cell(k, "cpc") = Frac(1, 2)
               /\ (Has(raw, "revenue") /\ Cell(r, "revenue") = Num(500)
                     /\ Cell(r, "purchases") = Num(0)) =>
                    /\ Cell(k, "purchases") = Num(1)
                    /\ Cell(k, "aov") = Num(500)]_vars

\* KPIs of the repaired row {clicks 120, impressions 100, spend 50, revenue 500, purchases 0}
C26_Witness ==
  /\ pc = "kpis"
  /\ \E r \in Rows(raw) :
       /\ Cell(r, "clicks") = Num(120) /\ Cell(r, "spend") = Num(50)
       /\ Has(raw, "revenue") /\ Cell(r, "revenue") = Num(500) /\ Cell(r, "purchases") = Num(0)
       /\ Cell(SameDay(kpis, r), "clicks") = Num(100)
       /\ Cell(SameDay(kpis, r), "cpc") = Frac(1, 2)
       /\ Cell(SameDay(kpis, r), "aov") = Num(500)

\* the cells of column nm are pairwise distinct over the rows of t, none missing
DistinctIn(t, nm) ==
  \A i, j \in 1..Len(t.rows) :
    /\ ~IsNull(Cell(t.rows[i], nm))
    /\ i # j => Cell(t.rows[i], nm) # Cell(t.rows[j], nm)

\* C27: when the source has no campaign_id column, the synthesized campaign_id
\* values of the returned table are pairwise distinct, also when rows were
\* dropped before the synthesis; so are the synthesized ad_id values when the
\* source has no ad_id column.
C27_SynthesizedIdsDistinct ==
  pc = "returned" =>
    /\ ~RawHas("campaign_id") => DistinctIn(df, "campaign_id")
    /\ ~RawHas("ad_id") => DistinctIn(df, "ad_id")

\* three rows of one campaign, the first dropped for its date: the ids of the
\* two that are returned differ
C27_Witness ==
  /\ pc = "returned"
  /\ ~RawHas("campaign_id")
  /\ Len(raw.rows) = 3
  /\ RawCell(raw.rows[1], "date") = Garbage
  /\ \A r \in Rows(raw) : RawCell(r, "campaign_name") = Str(<<"a", "_", "b">>)
  /\ Len(df.rows) = 2
  /\ Cell(df.rows[1], "campaign_id") # Cell(df.rows[2], "campaign_id")

\* the positions of the entries of the list l whose action_type is the target
Matching(l, target) ==
  {i \in 1..Len(l) : l[i].kind = "dict" /\ l[i].action_type = target}

\* every entry of l is an object whose value, if it has one, is a number or
\* the text of a number
WellFormed(l) ==
  \A i \in 1..Len(l) :
    /\ l[i].kind = "dict"
    /\ l[i].value.k \in {"absent", "num"} \/ (l[i].value.k = "str" /\ IsDigits(l[i].value.s))

\* the least element of a non-empty set of positions
First(S) == CHOOSE i \in S : \A j \in S : i <= j

\* C28: _extract_action_value returns, it never raises; it returns the number
\* of the first entry whose action_type is the target, and 0 when the list is
\* absent, empty, not a list, without such an entry or with malformed entries.
C28_ExtractNeverRaises ==
  pc # "extracting" =>
    LET l == actions_data.items
        m == Matching(l, "purchase")
    IN /\ pc = "extracted"
       /\ extracted.raised = ""
       /\ IF actions_data.kind = "list" /\ WellFormed(l) /\ m # {}
          THEN extracted.value = Float(l[First(m)].value).value
          ELSE extracted.value = Num(0)

\* C29: for every sheet that validate_excel_file accepts, clean_and_normalize
\* returns a table, it does not raise, whichever optional columns the sheet has.
C29_AcceptedTablesAreProcessed ==
  (source = "upload" /\ result.is_valid /\ calls # <<>>
     /\ calls[Len(calls)] = "clean_and_normalize") =>
    /\ pc = "processed"
    /\ ~CleanAndNormalizeRaises(raw)

\* the source ends the pagination: the cursors from the insights address lead
\* to an answer that is no page or a page without a next cursor
ServerEnds ==
  LET t == Trail(pages, 1, MaxPages)
      last == pages[t[Len(t)]]
  IN last.kind # "page" \/ last.next = 0

\* get_insights_data has returned, a frame of rows or an empty one
HasReturned == pc \in {"returned", "returned_empty", "raised"}

\* C30: if the source ever answers with a status other than 200, without a
\* data field or without a next cursor, the call returns; when a later page is
\* answered with a status other than 200, the rows of the pages received
\* before it are returned, not discarded.
C30_PaginationTerminates ==
  /\ (pc = "fetching" /\ ServerEnds) ~> HasReturned
  /\ [](pc \in {"returned", "returned_empty"} =>
          /\ pages[requests[Len(requests)]].kind # "raise"
          /\ (pc = "returned_empty") = (FetchedUpTo(Len(requests)) = <<>>)
          /\ pc = "returned" => all_data = FetchedUpTo(Len(requests)))

\* the second page is answered with an error: the row of the first page is returned
C30_Witness ==
  /\ pc = "returned"
  /\ requests = <<1, 2>>
  /\ pages[2].kind = "error"
  /\ all_data = <<<<1, 1>>>>

====
